---- MODULE Spec2Model ----
(***************************************************************************)
(* The AI dispatch layer of koiyahoney/edcel.                              *)
(*                                                                         *)
(*   groq-client.js (src/unnamed/part_001)  key pool: keyStatus,           *)
(*                                          currentIndex, selection,       *)
(*                                          quarantine                     *)
(*   groq-ai.js     (src/groq-ai.js)        multi-key dispatcher           *)
(*   ai-providers   (src/unnamed/part_002)  multi-provider dispatcher      *)
(*                                                                         *)
(* The two dispatchers are separate modules with disjoint state; a process *)
(* runs one of them (variable dispatcher).  JavaScript runs each handler   *)
(* to its next await without interleaving, so one action is the code from  *)
(* one suspension point to the next.                                       *)
(***************************************************************************)
EXTENDS Integers, Sequences, FiniteSets, TLC

VARIABLES
    env,          \* process.env, read at module load and at each call
    dispatcher,   \* which dispatcher module this process serves requests with
    now,          \* Date.now(), in ms since the process started
    keyStatus,    \* part_001: keyStatus[i] = [limited, resetTime]
    currentIndex, \* part_001: rotation cursor (1-based here, 0-based in the code)
    providers,    \* part_002: providers[i] = [name, priority, limited, resetTime]
    calls,        \* the chatWithAI calls, one record per request slot
    snapshot,     \* what getKeysInfo() / getProvidersInfo() returned in the last step
    events        \* number of requests made and clock advances so far

vars == <<env, dispatcher, now, keyStatus, currentIndex, providers, calls, snapshot, events>>

----------------------------------------------------------------------------
(* Bounds of the model *)

\* number of external events in one run: requests arriving, diagnostic calls and
\* clock advances
MaxEvents == 3

\* request slots: a request and one that overlaps it
Calls == { 1, 2 }

----------------------------------------------------------------------------
(* Program constants *)

\* groq-ai.js:45  default attempt budget
DefaultMaxAttempts == 3
\* groq-ai.js:75, part_002:210  cooldown after a rate-limit failure, in seconds
ShortCooldown == 3600
\* part_002:220  cooldown after an authentication failure, in seconds
LongCooldown == 86400
\* part_001:67, part_002:91  seconds to milliseconds
MsPerSecond == 1000

\* null or undefined in a number-valued field: resetTime: null (part_001:33,
\* part_002:40), an error without a status
Null == -1
\* NaN, what parseInt returns for a string that starts with no digit; no number
\* the model computes has this value
NaN == -2

\* JavaScript truthiness of a number-or-null (status.resetTime && ...)
TruthyNum(x) == x # Null /\ x # 0 /\ x # NaN
\* JavaScript truthiness of a string; an unset environment variable is modelled as
\* the empty string, which every use in the code treats the same way
TruthyStr(s) == s # ""
\* process.env.GROQ_API_KEYS is kept as its comma-separated fields: <<>> when
\* unset, <<"">> for the empty string
TruthyFields(f) == f # <<>> /\ f # <<"">>

----------------------------------------------------------------------------
(* Texts.  A text is a sequence of string fragments (its concatenation);   *)
(* the empty string is the empty sequence.                                 *)

TruthyText(t) == t # <<>>

BoolStr(b) == IF b THEN "true" ELSE "false"

\* groq-ai.js:51-52
NoKeysMsg(e) ==
    << "The AI service is currently unavailable (no API keys). ",
       "(Env vars: GROQ_API_KEYS=", BoolStr(TruthyFields(e.GROQ_API_KEYS)),
       ", GROQ_API_KEY=", BoolStr(TruthyStr(e.GROQ_API_KEY)), ")",
       " Please try again later or use FAQ mode." >>
\* groq-ai.js:67
ApologyMsg == << "I apologize, but I could not generate a response. Please try again." >>
\* groq-ai.js:85
AuthErrorMsg == << "AI service authentication error. Please check the API key configuration." >>
\* groq-ai.js:89
ErrorOccurredMsg == << "An error occurred while contacting the AI service. Please try again later or use FAQ mode." >>
\* groq-ai.js:94
AllAttemptsFailedMsg == << "The AI service is currently unavailable due to rate limits or errors. Please try again later." >>
\* groq-ai.js:99
HighDemandMsg == << "I apologize, but the AI service is currently experiencing high demand. Please try again in a moment or switch to FAQ mode for instant answers." >>
\* groq-ai.js:103
ConfigErrorMsg == << "AI service configuration error. Please contact the administrator." >>
\* part_002:175
NoProvidersMsg == << "The AI service is currently unavailable. All providers are rate-limited or not configured. Please try again later or use FAQ mode." >>
\* part_002:229
AllServicesUnavailableMsg == << "I apologize, but all AI services are currently unavailable. Please try again later or use FAQ mode for instant answers." >>

\* the fixed degradation texts of each dispatcher
DegradedTextsKeys(e) ==
    { NoKeysMsg(e), ApologyMsg, AuthErrorMsg, ErrorOccurredMsg, AllAttemptsFailedMsg,
      HighDemandMsg, ConfigErrorMsg }
DegradedTextsProviders == { NoProvidersMsg, AllServicesUnavailableMsg }

----------------------------------------------------------------------------
(* Environment *)

\* parseInt on the strings the model configures
ParseInt(s) ==
    CASE s = "-1" -> 0 - 1
      [] s = "0" -> 0
      [] s = "1" -> 1
      [] s = "2" -> 2
      [] s = "3" -> 3
      [] s = "3600" -> 3600
      [] OTHER -> NaN

\* Math.max: NaN when an argument is NaN
Max(a, b) == IF a = NaN \/ b = NaN THEN NaN ELSE IF a >= b THEN a ELSE b
\* a < b: false when an operand is NaN
Less(a, b) == a # NaN /\ b # NaN /\ a < b
\* Date.now() + seconds * 1000: NaN when seconds is NaN
AddSeconds(t, seconds) == IF seconds = NaN THEN NaN ELSE t + seconds * MsPerSecond

\* groq-ai.js:45  Math.max(1, env ? parseInt(env) : 3)
MaxAttempts(e) ==
    Max(1, IF TruthyStr(e.GROQ_MAX_ATTEMPTS) THEN ParseInt(e.GROQ_MAX_ATTEMPTS)
           ELSE DefaultMaxAttempts)

\* groq-ai.js:75  parseInt(process.env.GROQ_KEY_COOLDOWN_SECONDS || '3600')
KeyCooldownSeconds(e) ==
    ParseInt(IF TruthyStr(e.GROQ_KEY_COOLDOWN_SECONDS) THEN e.GROQ_KEY_COOLDOWN_SECONDS
             ELSE "3600")

\* the environments of a process that serves requests with groq-ai.js
EnvsKeys ==
    [ GROQ_API_KEYS : { <<>>, <<"k1", "k2">> },
      GROQ_API_KEY : { "" },
      GROQ_API_KEY_1 : { "", "k1" },
      GROQ_API_KEY_2 : { "" },
      GROQ_MAX_ATTEMPTS : { "", "2" },
      GROQ_KEY_COOLDOWN_SECONDS : { "" },
      GEMINI_API_KEY : { "" },
      COHERE_API_KEY : { "" } ]

\* environments that name keys more than once, within GROQ_API_KEYS and across
\* the variables
EnvsPool ==
    [ GROQ_API_KEYS : { <<>>, <<"k1">>, <<"k2", "k1">>, <<"k1", "", "k1">>,
                        <<"k1", "k2", "k1">> },
      GROQ_API_KEY : { "", "k1", "k3" },
      GROQ_API_KEY_1 : { "", "k2" },
      GROQ_API_KEY_2 : { "", "k1", "k3" },
      GROQ_MAX_ATTEMPTS : { "" },
      GROQ_KEY_COOLDOWN_SECONDS : { "" },
      GEMINI_API_KEY : { "" },
      COHERE_API_KEY : { "" } ]

\* environments of groq-ai.js whose numeric settings are absent, zero, negative
\* or not a number
EnvsConfig ==
    [ GROQ_API_KEYS : { <<"k1", "k2">> },
      GROQ_API_KEY : { "" },
      GROQ_API_KEY_1 : { "" },
      GROQ_API_KEY_2 : { "" },
      GROQ_MAX_ATTEMPTS : { "", "0", "-1", "2", "abc" },
      GROQ_KEY_COOLDOWN_SECONDS : { "", "0", "abc" },
      GEMINI_API_KEY : { "" },
      COHERE_API_KEY : { "" } ]

\* the environments of a process that serves requests with the provider module
EnvsProviders ==
    [ GROQ_API_KEYS : { <<>> },
      GROQ_API_KEY : { "", "k1" },
      GROQ_API_KEY_1 : { "" },
      GROQ_API_KEY_2 : { "" },
      GROQ_MAX_ATTEMPTS : { "" },
      GROQ_KEY_COOLDOWN_SECONDS : { "" },
      GEMINI_API_KEY : { "", "g1" },
      COHERE_API_KEY : { "", "c1" } ]

----------------------------------------------------------------------------
(* groq-client.js (part_001): the key pool *)

\* part_001:7  split(',').map(trim).filter(Boolean) on the fields
FilterFields(f) == SelectSeq(f, LAMBDA k : k # "")

\* part_001:4-13  keys, in push order
KeysOf(e) ==
    FilterFields(e.GROQ_API_KEYS)
    \o (IF TruthyStr(e.GROQ_API_KEY) THEN <<e.GROQ_API_KEY>> ELSE <<>>)
    \o (IF TruthyStr(e.GROQ_API_KEY_1) THEN <<e.GROQ_API_KEY_1>> ELSE <<>>)
    \o (IF TruthyStr(e.GROQ_API_KEY_2) THEN <<e.GROQ_API_KEY_2>> ELSE <<>>)

\* Dedupe that removes nothing
DedupeNothing(s) == s

\* part_001:16  [...new Set(keys)]: first occurrences, in order
RECURSIVE Dedupe(_)
Dedupe(s) ==
    IF s = <<>> THEN <<>>
    ELSE LET front == Dedupe(SubSeq(s, 1, Len(s) - 1))
             last == s[Len(s)]
         IN IF \E i \in 1..Len(front) : front[i] = last THEN front
            ELSE Append(front, last)

UniqueKeys(e) == Dedupe(KeysOf(e))

\* part_001:30  clients: one client per key, in the order of the keys
Clients(e) == [ i \in 1..Len(UniqueKeys(e)) |-> [apiKey |-> UniqueKeys(e)[i]] ]

\* part_001:33  keyStatus at module load
InitKeyStatus(e) ==
    [ i \in 1..Len(UniqueKeys(e)) |-> [limited |-> FALSE, resetTime |-> Null] ]

\* ResetIfExpired with the window closed one instant early (>= for >)
ResetIfExpiredEarly(status, t) ==
    IF status.limited /\ TruthyNum(status.resetTime) /\ t >= status.resetTime
    THEN [limited |-> FALSE, resetTime |-> Null]
    ELSE status

\* part_001:36-42
ResetIfExpired(status, t) ==
    IF status.limited /\ TruthyNum(status.resetTime) /\ t > status.resetTime
    THEN [limited |-> FALSE, resetTime |-> Null]
    ELSE status

\* part_001:48-50  the reset loop over every key
ResetAllKeys(ks, t) == [ i \in 1..Len(ks) |-> ResetIfExpired(ks[i], t) ]

\* part_001:53-54  the i-th index scanned from the cursor (1-based)
ScanIndex(cur, i, n) == ((cur - 1 + i) % n) + 1

\* GetAvailableClient falling back to the key under the cursor when every key is
\* limited, instead of returning null
GetAvailableClientFallback(ks, cur, t) ==
    LET n == Len(ks)
        ks2 == ResetAllKeys(ks, t)
        hits == { i \in 0..(n - 1) : ~ks2[ScanIndex(cur, i, n)].limited }
    IN IF n = 0 THEN [found |-> FALSE, keyIndex |-> 0, keyStatus |-> ks, currentIndex |-> cur]
       ELSE IF hits = {} THEN [found |-> TRUE, keyIndex |-> cur, keyStatus |-> ks2, currentIndex |-> cur]
       ELSE LET first == CHOOSE i \in hits : \A j \in hits : i <= j
                idx == ScanIndex(cur, first, n)
            IN [found |-> TRUE, keyIndex |-> idx, keyStatus |-> ks2, currentIndex |-> idx]

\* GetAvailableClient scanning from the first key, wherever the cursor stands
GetAvailableClientFromStart(ks, cur, t) ==
    LET n == Len(ks)
        ks2 == ResetAllKeys(ks, t)
        hits == { i \in 1..n : ~ks2[i].limited }
    IN IF n = 0 THEN [found |-> FALSE, keyIndex |-> 0, keyStatus |-> ks, currentIndex |-> cur]
       ELSE IF hits = {} THEN [found |-> FALSE, keyIndex |-> 0, keyStatus |-> ks2, currentIndex |-> cur]
       ELSE LET idx == CHOOSE i \in hits : \A j \in hits : i <= j
            IN [found |-> TRUE, keyIndex |-> idx, keyStatus |-> ks2, currentIndex |-> idx]

\* GetAvailableClient moving the cursor one place on when it finds no key
GetAvailableClientAdvancing(ks, cur, t) ==
    LET n == Len(ks)
        ks2 == ResetAllKeys(ks, t)
        hits == { i \in 0..(n - 1) : ~ks2[ScanIndex(cur, i, n)].limited }
    IN IF n = 0 THEN [found |-> FALSE, keyIndex |-> 0, keyStatus |-> ks, currentIndex |-> cur]
       ELSE IF hits = {}
       THEN [found |-> FALSE, keyIndex |-> 0, keyStatus |-> ks2,
             currentIndex |-> ScanIndex(cur, 1, n)]
       ELSE LET first == CHOOSE i \in hits : \A j \in hits : i <= j
                idx == ScanIndex(cur, first, n)
            IN [found |-> TRUE, keyIndex |-> idx, keyStatus |-> ks2, currentIndex |-> idx]

\* part_001:44-62  getAvailableClient: the key status after the reset loop, whether
\* a key was found, its index and the cursor afterwards
GetAvailableClient(ks, cur, t) ==
    LET n == Len(ks)
        ks2 == ResetAllKeys(ks, t)
        hits == { i \in 0..(n - 1) : ~ks2[ScanIndex(cur, i, n)].limited }
    IN IF n = 0 THEN [found |-> FALSE, keyIndex |-> 0, keyStatus |-> ks, currentIndex |-> cur]
       ELSE IF hits = {} THEN [found |-> FALSE, keyIndex |-> 0, keyStatus |-> ks2, currentIndex |-> cur]
       ELSE LET first == CHOOSE i \in hits : \A j \in hits : i <= j
                idx == ScanIndex(cur, first, n)
            IN [found |-> TRUE, keyIndex |-> idx, keyStatus |-> ks2, currentIndex |-> idx]

\* MarkKeyLimited that marks nothing
MarkKeyLimitedNothing(ks, index, seconds, t) == ks

\* MarkKeyLimited with the duration added in seconds to a clock in milliseconds
MarkKeyLimitedSeconds(ks, index, seconds, t) ==
    IF index < 1 \/ index > Len(ks) THEN ks
    ELSE [ks EXCEPT ![index] = [limited |-> TRUE, resetTime |-> t + seconds]]

\* part_001:64-69  markKeyLimited(index, seconds)
MarkKeyLimited(ks, index, seconds, t) ==
    IF index < 1 \/ index > Len(ks) THEN ks
    ELSE [ks EXCEPT ![index] = [limited |-> TRUE, resetTime |-> AddSeconds(t, seconds)]]

----------------------------------------------------------------------------
(* Requests, backend answers and errors *)

\* conversationHistory as the caller passes it: null (not iterable) or an array
Histories ==
    { [iterable |-> FALSE, items |-> <<>>],
      [iterable |-> TRUE, items |-> <<>>] }

\* a thrown value: null/undefined itself (nullish), or an object with optional
\* status, statusCode and message
Error(st, sc, msg) == [nullish |-> FALSE, status |-> st, statusCode |-> sc, message |-> msg]
NullishError == [nullish |-> TRUE, status |-> Null, statusCode |-> Null, message |-> ""]
\* what spreading or reading null raises
TypeError == Error(Null, Null, "TypeError: conversationHistory is not iterable")

BackendErrors ==
    { Error(429, Null, ""),
      Error(Null, Null, "Quota exceeded"),
      Error(Null, 429, "Resource exhausted"),
      Error(401, Null, ""),
      Error(Null, Null, "Unauthorized"),
      Error(500, Null, "Internal error"),
      NullishError }

\* the texts a backend answers with; <<>> is an answer without content
BackendTexts == { <<"hi">>, <<>> }

\* the outcome of one backend invocation
Success(text) == [ok |-> TRUE, text |-> text, error |-> TypeError]
Failure(err) == [ok |-> FALSE, text |-> <<>>, error |-> err]
Outcomes == { Success(t) : t \in BackendTexts } \cup { Failure(x) : x \in BackendErrors }

\* rejections that carry a status and a message of different kinds, both or
\* neither, besides the ones above
ErrorsClassify ==
    BackendErrors \cup
    { Error(401, Null, "Quota exceeded"),
      Error(429, Null, "Unauthorized"),
      Error(Null, Null, "Too many requests"),
      Error(Null, Null, "Invalid API Key"),
      Error(Null, 401, "Authentication failed"),
      Error(Null, Null, "") }
OutcomesClassify == { Failure(x) : x \in ErrorsClassify } \cup { Success(<<"hi">>) }

\* groq-ai.js:73  /rate limit|quota|too many requests/i
RateLimitRegexKeys == { "Rate limit reached", "Quota exceeded", "Too many requests" }
\* groq-ai.js:84  /invalid api key|unauthorized/i
AuthRegexKeys == { "Invalid API Key", "Unauthorized" }
\* part_002:208  /rate limit|quota|too many requests|resource exhausted/i
RateLimitRegexProviders == RateLimitRegexKeys \cup { "Resource exhausted" }
\* part_002:218  /invalid.*key|unauthorized|authentication/i
AuthRegexProviders == AuthRegexKeys \cup { "Invalid key", "Authentication failed" }

\* groq-ai.js:73
IsRateLimitedKeys(err) == err.status = 429 \/ err.message \in RateLimitRegexKeys
\* groq-ai.js:84
IsAuthFailedKeys(err) == err.status = 401 \/ err.message \in AuthRegexKeys
\* part_002:205-209
IsRateLimitedProviders(err) ==
    err.status = 429 \/ err.statusCode = 429 \/ err.message \in RateLimitRegexProviders
\* part_002:215-219
IsAuthFailedProviders(err) ==
    err.status = 401 \/ err.statusCode = 401 \/ err.message \in AuthRegexProviders

\* an entry of a conversation
Entry(role, content) == [role |-> role, content |-> content]
\* groq-ai.js:39, part_002:149  { role: 'system', content: SKSU_CONTEXT }
Preamble == Entry("system", "SKSU_CONTEXT")
\* the userMessage argument
UserMessage == "hello"

\* groq-ai.js:38-42, part_002:148-152  messages
BuildMessages(h) ==
    << Preamble >> \o h.items \o << Entry("user", UserMessage) >>

\* part_002:120-122  fullPrompt: the context, one line `role: content` per entry
\* of the history, and the user line
GeminiPrompt(h) ==
    << Entry("context", "SKSU_CONTEXT") >> \o h.items \o << Entry("User", UserMessage) >>

\* part_002:130-141  preamble, chatHistory (assistant becomes CHATBOT, every
\* other role USER) and message
CohereRequest(h) ==
    << Entry("preamble", "SKSU_CONTEXT") >>
    \o [ i \in 1..Len(h.items) |->
           Entry(IF h.items[i].role = "assistant" THEN "CHATBOT" ELSE "USER",
                 h.items[i].content) ]
    \o << Entry("message", UserMessage) >>

\* part_002:183-192  what the adapter of the provider named n sends
AdapterRequest(n, h) ==
    CASE n = "gemini" -> GeminiPrompt(h)
      [] n = "cohere" -> CohereRequest(h)
      [] n = "groq" -> BuildMessages(h)

\* conversationHistory with entries: req.body passes whatever the client sent
\* (part_000:183-191), any role included
HistoriesConv ==
    Histories \cup
    { [iterable |-> TRUE, items |-> its] :
        its \in { << Entry("user", "q1") >>,
                  << Entry("user", "q1"), Entry("assistant", "a1") >>,
                  << Entry("system", "s1") >>,
                  << Entry("user", "q1"), Entry("system", "SKSU_CONTEXT") >> } }

\* the value of snapshot when the step that led here was no diagnostic call
NoSnapshot == [returned |-> FALSE, info |-> <<>>]
\* its value when the step was a diagnostic call that returned info
Snapshot(info) == [returned |-> TRUE, info |-> info]

\* one chatWithAI call
\*   pc        "idle" not yet made, "await" suspended at the backend call,
\*             "returned" with result, "thrown" with an exception
\*   history   the conversationHistory argument
\*   messages  the conversation handed to the backend in the pending invocation
\*   attempt   groq-ai.js: the loop variable
\*   keyIndex  groq-ai.js: the key selected for the pending invocation (1-based)
\*   available part_002: availableProviders, the names in loop order
\*   pos       part_002: position of the loop in available
\*   invoked   the resources whose backend was invoked, in order
IdleCall ==
    [ pc |-> "idle", history |-> [iterable |-> TRUE, items |-> <<>>], messages |-> <<>>,
      attempt |-> 0, keyIndex |-> 0, available |-> <<>>, pos |-> 0, invoked |-> <<>>,
      result |-> <<>> ]

\* the call ends: its locals go out of scope, its result and its record of
\* invocations stay
EndCall(call, pc, text) ==
    [call EXCEPT !.pc = pc, !.result = text, !.messages = <<>>, !.attempt = 0,
                 !.keyIndex = 0, !.available = <<>>, !.pos = 0]
Return(call, text) == EndCall(call, "returned", text)
Throw(call) == EndCall(call, "thrown", <<>>)

\* a new request takes the first slot that holds no call in flight; the caller
\* of the call that was there has its result
FreeSlot(c) ==
    /\ calls[c].pc # "await"
    /\ \A d \in Calls : d < c => calls[d].pc = "await"
    /\ events < MaxEvents

----------------------------------------------------------------------------
(* groq-ai.js: the multi-key dispatcher *)

\* groq-ai.js:95-107  the outer catch
OuterCatch(call, err) ==
    IF err.status = 429 THEN Return(call, HighDemandMsg)
    ELSE IF err.status = 401 THEN Return(call, ConfigErrorMsg)
    ELSE Throw(call)

\* LoopKeys with the loop test off by one (attempt <= maxAttempts)
LoopKeysOffByOne(call, attempt, ks, cur, e, t) ==
    IF attempt > MaxAttempts(e)
    THEN [call |-> Return(call, AllAttemptsFailedMsg), keyStatus |-> ks, currentIndex |-> cur]
    ELSE LET sel == GetAvailableClient(ks, cur, t)
         IN IF ~sel.found
            THEN [call |-> Return(call, NoKeysMsg(e)),
                  keyStatus |-> sel.keyStatus, currentIndex |-> sel.currentIndex]
            ELSE [call |-> [call EXCEPT !.pc = "await", !.attempt = attempt,
                                        !.keyIndex = sel.keyIndex,
                                        !.invoked = Append(call.invoked, sel.keyIndex)],
                  keyStatus |-> sel.keyStatus, currentIndex |-> sel.currentIndex]

\* groq-ai.js:48-66  the loop from the head of iteration `attempt` to the await
\* of that iteration, or to the return that ends the call
LoopKeys(call, attempt, ks, cur, e, t) ==
    IF ~Less(attempt, MaxAttempts(e))
    THEN [call |-> Return(call, AllAttemptsFailedMsg), keyStatus |-> ks, currentIndex |-> cur]
    ELSE LET sel == GetAvailableClient(ks, cur, t)
         IN IF ~sel.found
            THEN [call |-> Return(call, NoKeysMsg(e)),
                  keyStatus |-> sel.keyStatus, currentIndex |-> sel.currentIndex]
            ELSE [call |-> [call EXCEPT !.pc = "await", !.attempt = attempt,
                                        !.keyIndex = sel.keyIndex,
                                        !.invoked = Append(call.invoked, sel.keyIndex)],
                  keyStatus |-> sel.keyStatus, currentIndex |-> sel.currentIndex]

\* groq-ai.js:35-66  chatWithAI(userMessage, history) up to its first await
GroqChatStart(c, h) ==
    /\ dispatcher = "groq-ai"
    /\ FreeSlot(c)
    /\ events' = events + 1
    /\ LET call == [IdleCall EXCEPT !.history = h,
                                     !.messages = IF h.iterable THEN BuildMessages(h)
                                                  ELSE <<>>]
           r == IF ~h.iterable
                THEN [call |-> OuterCatch(call, TypeError),
                      keyStatus |-> keyStatus, currentIndex |-> currentIndex]
                ELSE LoopKeys(call, 0, keyStatus, currentIndex, env, now)
       IN /\ calls' = [calls EXCEPT ![c] = r.call]
          /\ keyStatus' = r.keyStatus
          /\ currentIndex' = r.currentIndex
    /\ snapshot' = NoSnapshot
    /\ UNCHANGED <<env, dispatcher, now, providers>>

\* AfterInvokeKeys returning the content of the completion as it is
AfterInvokeKeysRawText(call, o, ks, cur, e, t) ==
    IF o.ok
    THEN [call |-> Return(call, o.text), keyStatus |-> ks, currentIndex |-> cur]
    ELSE IF o.error.nullish
    THEN [call |-> OuterCatch(call, TypeError), keyStatus |-> ks, currentIndex |-> cur]
    ELSE IF IsRateLimitedKeys(o.error)
    THEN LoopKeys(call, call.attempt + 1,
                  MarkKeyLimited(ks, call.keyIndex, KeyCooldownSeconds(e), t), cur, e, t)
    ELSE IF IsAuthFailedKeys(o.error)
    THEN [call |-> Return(call, AuthErrorMsg), keyStatus |-> ks, currentIndex |-> cur]
    ELSE [call |-> Return(call, ErrorOccurredMsg), keyStatus |-> ks, currentIndex |-> cur]

\* AfterInvokeKeys quarantining the key under the cursor, not the key invoked
AfterInvokeKeysCursor(call, o, ks, cur, e, t) ==
    IF o.ok
    THEN [call |-> Return(call, IF TruthyText(o.text) THEN o.text ELSE ApologyMsg),
          keyStatus |-> ks, currentIndex |-> cur]
    ELSE IF o.error.nullish
    THEN [call |-> OuterCatch(call, TypeError), keyStatus |-> ks, currentIndex |-> cur]
    ELSE IF IsRateLimitedKeys(o.error)
    THEN LoopKeys(call, call.attempt + 1,
                  MarkKeyLimited(ks, cur, KeyCooldownSeconds(e), t), cur, e, t)
    ELSE IF IsAuthFailedKeys(o.error)
    THEN [call |-> Return(call, AuthErrorMsg), keyStatus |-> ks, currentIndex |-> cur]
    ELSE [call |-> Return(call, ErrorOccurredMsg), keyStatus |-> ks, currentIndex |-> cur]

\* AfterInvokeKeys clearing every quarantine when an invocation succeeds
AfterInvokeKeysHealing(call, o, ks, cur, e, t) ==
    IF o.ok
    THEN [call |-> Return(call, IF TruthyText(o.text) THEN o.text ELSE ApologyMsg),
          keyStatus |-> [ i \in 1..Len(ks) |-> [limited |-> FALSE, resetTime |-> Null] ],
          currentIndex |-> cur]
    ELSE IF o.error.nullish
    THEN [call |-> OuterCatch(call, TypeError), keyStatus |-> ks, currentIndex |-> cur]
    ELSE IF IsRateLimitedKeys(o.error)
    THEN LoopKeys(call, call.attempt + 1,
                  MarkKeyLimited(ks, call.keyIndex, KeyCooldownSeconds(e), t), cur, e, t)
    ELSE IF IsAuthFailedKeys(o.error)
    THEN [call |-> Return(call, AuthErrorMsg), keyStatus |-> ks, currentIndex |-> cur]
    ELSE [call |-> Return(call, ErrorOccurredMsg), keyStatus |-> ks, currentIndex |-> cur]

\* groq-ai.js:67-91  what follows the await of one invocation, for outcome o
AfterInvokeKeys(call, o, ks, cur, e, t) ==
    IF o.ok
    THEN [call |-> Return(call, IF TruthyText(o.text) THEN o.text ELSE ApologyMsg),
          keyStatus |-> ks, currentIndex |-> cur]
    ELSE IF o.error.nullish
    THEN [call |-> OuterCatch(call, TypeError), keyStatus |-> ks, currentIndex |-> cur]
    ELSE IF IsRateLimitedKeys(o.error)
    THEN LoopKeys(call, call.attempt + 1,
                  MarkKeyLimited(ks, call.keyIndex, KeyCooldownSeconds(e), t), cur, e, t)
    ELSE IF IsAuthFailedKeys(o.error)
    THEN [call |-> Return(call, AuthErrorMsg), keyStatus |-> ks, currentIndex |-> cur]
    ELSE [call |-> Return(call, ErrorOccurredMsg), keyStatus |-> ks, currentIndex |-> cur]

\* groq-ai.js:58-94  the backend answers call c with outcome o
GroqChatResume(c, o) ==
    /\ dispatcher = "groq-ai"
    /\ calls[c].pc = "await"
    /\ LET r == AfterInvokeKeys(calls[c], o, keyStatus, currentIndex, env, now)
       IN /\ calls' = [calls EXCEPT ![c] = r.call]
          /\ keyStatus' = r.keyStatus
          /\ currentIndex' = r.currentIndex
    /\ snapshot' = NoSnapshot
    /\ UNCHANGED <<env, dispatcher, now, providers, events>>

\* the conversationHistory of streamChatWithAI: an array, as its signature
\* documents (groq-ai.js:113); the function has no caller that passes another
HistoriesStream == { h \in Histories : h.iterable }

\* groq-ai.js:137-146  the stream the backend opened
StreamOf(text) == << "stream" >> \o text

\* groq-ai.js:116-137  streamChatWithAI(userMessage, history) up to its await
StreamStart(c, h) ==
    /\ dispatcher = "groq-ai"
    /\ FreeSlot(c)
    /\ events' = events + 1
    /\ LET call == [IdleCall EXCEPT !.history = h,
                                     !.messages = IF h.iterable THEN BuildMessages(h)
                                                  ELSE <<>>]
           sel == GetAvailableClient(keyStatus, currentIndex, now)
       IN IF ~h.iterable
          THEN /\ calls' = [calls EXCEPT ![c] = Throw(call)]
               /\ UNCHANGED <<keyStatus, currentIndex>>
          ELSE /\ calls' = [calls EXCEPT ![c] =
                               IF sel.found
                               THEN [call EXCEPT !.pc = "await",
                                                 !.keyIndex = sel.keyIndex,
                                                 !.invoked = << sel.keyIndex >>]
                               ELSE Throw(call)]
               /\ keyStatus' = sel.keyStatus
               /\ currentIndex' = sel.currentIndex
    /\ snapshot' = NoSnapshot
    /\ UNCHANGED <<env, dispatcher, now, providers>>

\* StreamAfterInvoke classifying by the message as chatWithAI does
StreamAfterInvokeByMessage(call, o, ks, e, t) ==
    IF o.ok
    THEN [call |-> Return(call, StreamOf(o.text)), keyStatus |-> ks]
    ELSE IF ~o.error.nullish /\ IsRateLimitedKeys(o.error)
    THEN [call |-> Throw(call),
          keyStatus |-> MarkKeyLimited(ks, call.keyIndex, KeyCooldownSeconds(e), t)]
    ELSE [call |-> Throw(call), keyStatus |-> ks]

\* groq-ai.js:137-153  what follows the await, for outcome o
StreamAfterInvoke(call, o, ks, e, t) ==
    IF o.ok
    THEN [call |-> Return(call, StreamOf(o.text)), keyStatus |-> ks]
    ELSE IF ~o.error.nullish /\ o.error.status = 429
    THEN [call |-> Throw(call),
          keyStatus |-> MarkKeyLimited(ks, call.keyIndex, KeyCooldownSeconds(e), t)]
    ELSE [call |-> Throw(call), keyStatus |-> ks]

\* groq-ai.js:137-153  the backend answers the streaming call c with outcome o
StreamResume(c, o) ==
    /\ dispatcher = "groq-ai"
    /\ calls[c].pc = "await"
    /\ LET r == StreamAfterInvoke(calls[c], o, keyStatus, env, now)
       IN /\ calls' = [calls EXCEPT ![c] = r.call]
          /\ keyStatus' = r.keyStatus
    /\ snapshot' = NoSnapshot
    /\ UNCHANGED <<env, dispatcher, now, currentIndex, providers, events>>

----------------------------------------------------------------------------
(* part_002: the provider pool and the multi-provider dispatcher *)

Provider(name, priority) ==
    [name |-> name, priority |-> priority, limited |-> FALSE, resetTime |-> Null]

\* part_002:29-83  providers at module load, in push order
InitProviders(e) ==
    (IF TruthyStr(e.GEMINI_API_KEY) THEN <<Provider("gemini", 1)>> ELSE <<>>)
    \o (IF TruthyStr(e.COHERE_API_KEY) THEN <<Provider("cohere", 2)>> ELSE <<>>)
    \o (IF TruthyStr(e.GROQ_API_KEY)
           \/ (TruthyFields(e.GROQ_API_KEYS) /\ TruthyStr(e.GROQ_API_KEYS[1]))
        THEN <<Provider("groq", 3)>> ELSE <<>>)

\* MarkProviderLimited keeping the later of the old and the new resetTime
MarkProviderLimitedMax(ps, name, seconds, t) ==
    LET found == { i \in 1..Len(ps) : ps[i].name = name }
    IN IF found = {} THEN ps
       ELSE LET i == CHOOSE i \in found : \A j \in found : i <= j
            IN [ps EXCEPT ![i].limited = TRUE,
                          ![i].resetTime = Max(ps[i].resetTime, t + seconds * MsPerSecond)]

\* part_002:87-94  markProviderLimited(providerName, seconds): providers.find
MarkProviderLimited(ps, name, seconds, t) ==
    LET found == { i \in 1..Len(ps) : ps[i].name = name }
    IN IF found = {} THEN ps
       ELSE LET i == CHOOSE i \in found : \A j \in found : i <= j
            IN [ps EXCEPT ![i].limited = TRUE, ![i].resetTime = t + seconds * MsPerSecond]

\* part_002:96-105
ResetExpiredProviders(ps, t) ==
    [ i \in 1..Len(ps) |->
        IF ps[i].limited /\ TruthyNum(ps[i].resetTime) /\ t > ps[i].resetTime
        THEN [ps[i] EXCEPT !.limited = FALSE, !.resetTime = Null]
        ELSE ps[i] ]

\* SortByPriority with the comparator reversed (b.priority - a.priority)
RECURSIVE SortByPriorityDescending(_)
SortByPriorityDescending(s) ==
    IF s = <<>> THEN <<>>
    ELSE LET front == SortByPriorityDescending(SubSeq(s, 1, Len(s) - 1))
             last == s[Len(s)]
             keep == { i \in 1..Len(front) : front[i].priority >= last.priority }
             k == Cardinality(keep)
         IN SubSeq(front, 1, k) \o <<last>> \o SubSeq(front, k + 1, Len(front))

\* part_002:111  .sort((a, b) => a.priority - b.priority): stable, ascending
RECURSIVE SortByPriority(_)
SortByPriority(s) ==
    IF s = <<>> THEN <<>>
    ELSE LET front == SortByPriority(SubSeq(s, 1, Len(s) - 1))
             last == s[Len(s)]
             keep == { i \in 1..Len(front) : front[i].priority <= last.priority }
             k == Cardinality(keep)
         IN SubSeq(front, 1, k) \o <<last>> \o SubSeq(front, k + 1, Len(front))

\* GetAvailableProviders filtering and sorting the pool itself, not a copy
GetAvailableProvidersInPlace(ps, t) ==
    LET ps2 == ResetExpiredProviders(ps, t)
        kept == SortByPriority(SelectSeq(ps2, LAMBDA p : ~p.limited))
    IN [providers |-> kept, available |-> kept]

\* part_002:107-112  getAvailableProviders: the providers after the reset, and the
\* eligible ones in priority order
GetAvailableProviders(ps, t) ==
    LET ps2 == ResetExpiredProviders(ps, t)
    IN [providers |-> ps2,
        available |-> SortByPriority(SelectSeq(ps2, LAMBDA p : ~p.limited))]

\* part_002:115-163  an adapter reaches its backend only when it can read the
\* history: each one dereferences conversationHistory before the network call
AdapterReachesBackend(h) == h.iterable

\* LoopProviders walking the list from its end
LoopProvidersReversed(call, pos) ==
    IF pos > Len(call.available) \/ ~AdapterReachesBackend(call.history)
    THEN Return(call, AllServicesUnavailableMsg)
    ELSE LET from == Len(call.available) - pos + 1
         IN [call EXCEPT !.pc = "await", !.pos = pos,
                         !.messages = AdapterRequest(call.available[from], call.history),
                         !.invoked = Append(call.invoked, call.available[from])]

\* part_002:178-229  the loop from the head of the iteration at position pos to the
\* await of a backend invocation, or to the return after the loop.  An adapter
\* that cannot read the history rejects with a TypeError before any I/O; that
\* error matches neither pattern of the catch block (part_002:205-225), so the
\* iteration changes nothing and the loop goes on to the next provider.
LoopProviders(call, pos) ==
    IF pos > Len(call.available) \/ ~AdapterReachesBackend(call.history)
    THEN Return(call, AllServicesUnavailableMsg)
    ELSE [call EXCEPT !.pc = "await", !.pos = pos,
                      !.messages = AdapterRequest(call.available[pos], call.history),
                      !.invoked = Append(call.invoked, call.available[pos])]

\* SelectProviders answering an empty selection with the text of the end of the
\* loop
SelectProvidersOneText(h, ps, t) ==
    LET sel == GetAvailableProviders(ps, t)
        names == [ i \in 1..Len(sel.available) |-> sel.available[i].name ]
        call == [IdleCall EXCEPT !.history = h, !.available = names]
    IN [call |-> IF Len(names) = 0 THEN Return(call, AllServicesUnavailableMsg)
                 ELSE LoopProviders(call, 1),
        providers |-> sel.providers]

\* part_002:171-195  chatWithAI(userMessage, history) from its selection to its
\* first await, or to the return that ends it
SelectProviders(h, ps, t) ==
    LET sel == GetAvailableProviders(ps, t)
        names == [ i \in 1..Len(sel.available) |-> sel.available[i].name ]
        call == [IdleCall EXCEPT !.history = h, !.available = names]
    IN [call |-> IF Len(names) = 0 THEN Return(call, NoProvidersMsg)
                 ELSE LoopProviders(call, 1),
        providers |-> sel.providers]

\* part_002:171-195  a request arrives: chatWithAI(userMessage, history) runs up to
\* its first await
ProvidersChatStart(c, h) ==
    /\ dispatcher = "ai-providers"
    /\ FreeSlot(c)
    /\ events' = events + 1
    /\ LET r == SelectProviders(h, providers, now)
       IN /\ providers' = r.providers
          /\ calls' = [calls EXCEPT ![c] = r.call]
    /\ snapshot' = NoSnapshot
    /\ UNCHANGED <<env, dispatcher, now, keyStatus, currentIndex>>

\* AfterInvokeProviders quarantining the provider on every error, the
\* unclassified ones included
AfterInvokeProvidersPenalizeAll(call, o, ps, t) ==
    LET name == call.available[call.pos]
    IN IF o.ok
       THEN [call |-> IF TruthyText(o.text) THEN Return(call, o.text)
                      ELSE LoopProviders(call, call.pos + 1),
             providers |-> ps]
       ELSE IF o.error.nullish
       THEN [call |-> Throw(call), providers |-> ps]
       ELSE IF IsAuthFailedProviders(o.error) /\ ~IsRateLimitedProviders(o.error)
       THEN [call |-> LoopProviders(call, call.pos + 1),
             providers |-> MarkProviderLimited(ps, name, LongCooldown, t)]
       ELSE [call |-> LoopProviders(call, call.pos + 1),
             providers |-> MarkProviderLimited(ps, name, ShortCooldown, t)]

\* part_002:197-229  what follows the await of one adapter call, for outcome o
AfterInvokeProviders(call, o, ps, t) ==
    LET name == call.available[call.pos]
    IN IF o.ok
       THEN [call |-> IF TruthyText(o.text) THEN Return(call, o.text)
                      ELSE LoopProviders(call, call.pos + 1),
             providers |-> ps]
       ELSE IF o.error.nullish
       THEN [call |-> Throw(call), providers |-> ps]
       ELSE IF IsRateLimitedProviders(o.error)
       THEN [call |-> LoopProviders(call, call.pos + 1),
             providers |-> MarkProviderLimited(ps, name, ShortCooldown, t)]
       ELSE IF IsAuthFailedProviders(o.error)
       THEN [call |-> LoopProviders(call, call.pos + 1),
             providers |-> MarkProviderLimited(ps, name, LongCooldown, t)]
       ELSE [call |-> LoopProviders(call, call.pos + 1), providers |-> ps]

\* part_002:183-229  the adapter call of call c ends with outcome o
ProvidersChatResume(c, o) ==
    /\ dispatcher = "ai-providers"
    /\ calls[c].pc = "await"
    /\ LET r == AfterInvokeProviders(calls[c], o, providers, now)
       IN /\ calls' = [calls EXCEPT ![c] = r.call]
          /\ providers' = r.providers
    /\ snapshot' = NoSnapshot
    /\ UNCHANGED <<env, dispatcher, now, keyStatus, currentIndex, events>>

----------------------------------------------------------------------------
(* The diagnostic interface *)

\* GetKeysInfo running the lazy expiry reset before it reports
GetKeysInfoResetting ==
    /\ dispatcher = "groq-ai"
    /\ events < MaxEvents
    /\ events' = events + 1
    /\ keyStatus' = ResetAllKeys(keyStatus, now)
    /\ snapshot' = Snapshot([ i \in 1..Len(keyStatus) |->
                       [index |-> i - 1, limited |-> keyStatus'[i].limited,
                        resetTime |-> keyStatus'[i].resetTime] ])
    /\ UNCHANGED <<env, dispatcher, now, currentIndex, providers, calls>>

\* part_001:71-73  getKeysInfo(), as GET /api/debug/env calls it (part_000:908)
GetKeysInfo ==
    /\ dispatcher = "groq-ai"
    /\ events < MaxEvents
    /\ events' = events + 1
    /\ snapshot' = Snapshot([ i \in 1..Len(keyStatus) |->
                       [index |-> i - 1, limited |-> keyStatus[i].limited,
                        resetTime |-> keyStatus[i].resetTime] ])
    /\ UNCHANGED <<env, dispatcher, now, keyStatus, currentIndex, providers, calls>>

\* part_002:235-242  getProvidersInfo()
GetProvidersInfo ==
    /\ dispatcher = "ai-providers"
    /\ events < MaxEvents
    /\ events' = events + 1
    /\ snapshot' = Snapshot([ i \in 1..Len(providers) |->
                       [name |-> providers[i].name, priority |-> providers[i].priority,
                        limited |-> providers[i].limited,
                        resetTime |-> providers[i].resetTime] ])
    /\ UNCHANGED <<env, dispatcher, now, keyStatus, currentIndex, providers, calls>>

----------------------------------------------------------------------------
(* The clock and the specification *)

\* the resetTime values that lie ahead of the clock
PendingResets ==
    { keyStatus[i].resetTime : i \in 1..Len(keyStatus) }
    \cup { providers[i].resetTime : i \in 1..Len(providers) }

\* the clock advances by 1 ms, up to the instant a quarantine window ends, or
\* to 1 ms past that instant
TickSteps ==
    { 1 } \cup { r - now : r \in { x \in PendingResets : x > now } }
          \cup { r - now + 1 : r \in { x \in PendingResets : x > now } }

\* Date.now() returns a later instant at the next step of the event loop
Tick ==
    /\ events < MaxEvents
    /\ \E d \in TickSteps : now' = now + d
    /\ events' = events + 1
    /\ snapshot' = NoSnapshot
    /\ UNCHANGED <<env, dispatcher, keyStatus, currentIndex, providers, calls>>

\* the clock advancing without passing the end of a quarantine window
TickWithin ==
    /\ events < MaxEvents
    /\ \E d \in TickSteps :
          /\ \A r \in PendingResets : r >= now => now + d <= r
          /\ now' = now + d
    /\ events' = events + 1
    /\ snapshot' = NoSnapshot
    /\ UNCHANGED <<env, dispatcher, keyStatus, currentIndex, providers, calls>>

InitKeys ==
    /\ dispatcher = "groq-ai"
    /\ env \in EnvsKeys
    /\ keyStatus = InitKeyStatus(env)
    /\ providers = <<>>

InitProvidersModule ==
    /\ dispatcher = "ai-providers"
    /\ env \in EnvsProviders
    /\ keyStatus = <<>>
    /\ providers = InitProviders(env)

Init ==
    /\ now = 1
    /\ currentIndex = 1
    /\ calls = [ c \in Calls |-> IdleCall ]
    /\ snapshot = NoSnapshot
    /\ events = 0
    /\ (InitKeys \/ InitProvidersModule)

Next ==
    \/ \E c \in Calls, h \in Histories : GroqChatStart(c, h)
    \/ \E c \in Calls, o \in Outcomes : GroqChatResume(c, o)
    \/ \E c \in Calls, h \in Histories : ProvidersChatStart(c, h)
    \/ \E c \in Calls, o \in Outcomes : ProvidersChatResume(c, o)
    \/ GetKeysInfo
    \/ GetProvidersInfo
    \/ Tick

Spec == Init /\ [][Next]_vars

\* the behaviours in which no quarantine window lapses
NextWithin ==
    \/ \E c \in Calls, h \in Histories : GroqChatStart(c, h)
    \/ \E c \in Calls, o \in Outcomes : GroqChatResume(c, o)
    \/ \E c \in Calls, h \in Histories : ProvidersChatStart(c, h)
    \/ \E c \in Calls, o \in Outcomes : ProvidersChatResume(c, o)
    \/ GetKeysInfo
    \/ GetProvidersInfo
    \/ TickWithin

SpecWithin == Init /\ [][NextWithin]_vars

\* a process whose requests are served by streamChatWithAI
NextStream ==
    \/ \E c \in Calls, h \in HistoriesStream : StreamStart(c, h)
    \/ \E c \in Calls, o \in Outcomes : StreamResume(c, o)
    \/ GetKeysInfo
    \/ Tick

\* module load of groq-ai.js and its key pool
InitStream ==
    /\ Init
    /\ dispatcher = "groq-ai"

SpecStream == InitStream /\ [][NextStream]_vars

\* one chatWithAI call at a time, with the histories a client can send
NextConv ==
    \/ \E h \in HistoriesConv : GroqChatStart(1, h)
    \/ \E o \in Outcomes : GroqChatResume(1, o)
    \/ \E h \in HistoriesConv : ProvidersChatStart(1, h)
    \/ \E o \in Outcomes : ProvidersChatResume(1, o)

SpecConv == Init /\ [][NextConv]_vars

\* one chatWithAI call at a time, with rejections of every shape
NextClassify ==
    \/ \E h \in Histories : GroqChatStart(1, h)
    \/ \E o \in OutcomesClassify : GroqChatResume(1, o)
    \/ \E h \in Histories : ProvidersChatStart(1, h)
    \/ \E o \in OutcomesClassify : ProvidersChatResume(1, o)
    \/ Tick

SpecClassify == Init /\ [][NextClassify]_vars

\* the key pool built from environments that repeat keys, serving one call at
\* a time
InitPool ==
    /\ env \in EnvsPool
    /\ dispatcher = "groq-ai"
    /\ now = 1
    /\ keyStatus = InitKeyStatus(env)
    /\ currentIndex = 1
    /\ providers = <<>>
    /\ calls = [ c \in Calls |-> IdleCall ]
    /\ snapshot = NoSnapshot
    /\ events = 0

\* the same with the environments of EnvsConfig
InitConfig ==
    /\ env \in EnvsConfig
    /\ dispatcher = "groq-ai"
    /\ now = 1
    /\ keyStatus = InitKeyStatus(env)
    /\ currentIndex = 1
    /\ providers = <<>>
    /\ calls = [ c \in Calls |-> IdleCall ]
    /\ snapshot = NoSnapshot
    /\ events = 0

NextPool ==
    \/ \E h \in Histories : GroqChatStart(1, h)
    \/ \E o \in Outcomes : GroqChatResume(1, o)
    \/ GetKeysInfo
    \/ Tick

SpecPool == InitPool /\ [][NextPool]_vars

SpecConfig == InitConfig /\ [][NextPool]_vars

\* What the scheduling guarantees: time passes.  A continuation runs once its
\* awaited promise settles (a resume step is the settling and the continuation
\* together), but nothing in the code makes a pending promise settle: no
\* timeout, AbortSignal or timer is passed to any backend call (groq-ai.js:57-62,
\* part_002:118-162), so the resume steps carry no fairness.
FairSpec == Spec /\ WF_vars(Tick)

----------------------------------------------------------------------------
(* Vocabulary of the properties *)

KeysMode == dispatcher = "groq-ai"
ProvidersMode == dispatcher = "ai-providers"

KeyIdx == 1..Len(keyStatus)
ProvIdx == 1..Len(providers)

ShortMs == ShortCooldown * MsPerSecond
LongMs == LongCooldown * MsPerSecond

\* a resource is inside its quarantine window at the current instant
KeyQuarantined(i) == keyStatus[i].limited /\ now <= keyStatus[i].resetTime
ProviderQuarantined(i) == providers[i].limited /\ now <= providers[i].resetTime

\* the failure kinds of the error taxonomy, as each dispatcher classifies them
RateLimitedKeys(o) == ~o.ok /\ ~o.error.nullish /\ IsRateLimitedKeys(o.error)
AuthFailedKeys(o) ==
    ~o.ok /\ ~o.error.nullish /\ ~IsRateLimitedKeys(o.error) /\ IsAuthFailedKeys(o.error)
TransientKeys(o) ==
    ~o.ok /\ ~o.error.nullish /\ ~IsRateLimitedKeys(o.error) /\ ~IsAuthFailedKeys(o.error)
RateLimitedProviders(o) == ~o.ok /\ ~o.error.nullish /\ IsRateLimitedProviders(o.error)
AuthFailedProviders(o) ==
    /\ ~o.ok /\ ~o.error.nullish
    /\ ~IsRateLimitedProviders(o.error) /\ IsAuthFailedProviders(o.error)
TransientProviders(o) ==
    /\ ~o.ok /\ ~o.error.nullish
    /\ ~IsRateLimitedProviders(o.error) /\ ~IsAuthFailedProviders(o.error)

Range(f) == { f[i] : i \in DOMAIN f }

\* a step in which a request arrives and takes slot c
Arrives(c) ==
    FreeSlot(c) /\ events' = events + 1 /\ now' = now /\ snapshot' = NoSnapshot

\* a step in which the suspended call c is resumed
Resumed(c) == calls[c].pc = "await" /\ calls'[c] # calls[c]

\* a step in which a selection made by call c of the multi-key dispatcher returns
\* key i: the call starts, or goes on to its next attempt, and suspends on key i
SelectsKey(c, i) ==
    /\ calls'[c].pc = "await"
    /\ calls'[c].keyIndex = i
    /\ calls[c].pc # "await" \/ calls'[c].attempt # calls[c].attempt

----------------------------------------------------------------------------
(* C1 *)

\* C1: chatWithAI is total: whatever the pool state, the history and the backend
\* outcomes, a call ends by returning a text and never by raising an exception to
\* its caller.
C1_NeverThrows == \A c \in Calls : calls[c].pc # "thrown"

----------------------------------------------------------------------------
(* C2 *)

\* C2: one chatWithAI call performs at most maxAttempts backend invocations: the
\* configured budget in the multi-key loop, and the default budget of 3 in the
\* provider loop, which has no budget of its own and visits each provider once.
C2_AttemptBudget ==
    \A c \in Calls :
        /\ KeysMode => Len(calls[c].invoked) <= MaxAttempts(env)
        /\ ProvidersMode => Len(calls[c].invoked) <= DefaultMaxAttempts

\* C2 witness: a multi-key call used up a budget of 2 and returned the
\* attempts-exhausted text although the window of a key has lapsed by then.
C2_Witness ==
    \E c \in Calls :
        /\ KeysMode
        /\ calls[c].pc = "returned"
        /\ calls[c].result = AllAttemptsFailedMsg
        /\ MaxAttempts(env) = 2
        /\ Len(calls[c].invoked) = 2
        /\ \E i \in KeyIdx : keyStatus[i].limited /\ now > keyStatus[i].resetTime

----------------------------------------------------------------------------
(* C3 *)

\* C3 (multi-key pool): in a step that starts while key i is limited,
\*   - if the clock is at or before its resetTime (t+d included), no selection of
\*     that step returns key i;
\*   - if the clock is past its resetTime, a selection that returns a key leaves
\*     key i not limited (unless the selecting call has just quarantined it anew),
\*     and returns key i itself when a new request finds the cursor on it.
C3_KeysStep ==
    \A i \in KeyIdx :
        /\ KeyQuarantined(i) => \A c \in Calls : ~SelectsKey(c, i)
        /\ (keyStatus[i].limited /\ now > keyStatus[i].resetTime) =>
              \A c \in Calls :
                  (\E j \in KeyIdx : SelectsKey(c, j)) =>
                      /\ \/ ~keyStatus'[i].limited
                         \/ calls[c].pc = "await" /\ calls[c].keyIndex = i
                      /\ (calls[c].pc # "await" /\ currentIndex = i) => SelectsKey(c, i)

\* C3 (provider pool): in a step in which a request arrives while provider i is
\* limited,
\*   - if the clock is at or before its resetTime (t+d included), the provider
\*     stays as it is and is not among the providers the call will try;
\*   - if the clock is past its resetTime, the provider is reset and is among them.
C3_ProvidersStep ==
    \A i \in ProvIdx : \A c \in Calls :
        (ProvidersMode /\ Arrives(c) /\ providers[i].limited) =>
            IF now <= providers[i].resetTime
            THEN /\ providers'[i] = providers[i]
                 /\ providers[i].name \notin Range(calls'[c].available)
                 /\ providers[i].name \notin Range(calls'[c].invoked)
            ELSE /\ ~providers'[i].limited
                 /\ providers'[i].resetTime = Null
                 /\ calls'[c].pc = "await" => providers[i].name \in Range(calls'[c].available)

\* C3: a resource quarantined at t with cooldown d is not returned by selection
\* at any query time up to and including t+d, and is eligible again at any query
\* time after t+d.
C3_QuarantineWindow == [][C3_KeysStep /\ C3_ProvidersStep]_vars

\* C3 witness: one call of the multi-key dispatcher invoked key 1, then, key 1
\* being quarantined, key 2, and after the window of key 1 had lapsed key 1 again.
C3_Witness ==
    \E c \in Calls :
        /\ KeysMode
        /\ calls[c].pc = "await"
        /\ calls[c].invoked = <<1, 2, 1>>
        /\ ~keyStatus[1].limited
        /\ KeyQuarantined(2)

----------------------------------------------------------------------------
(* C4 *)

\* a backend answer with content
Answers(o) == o.ok /\ TruthyText(o.text)

\* C4 (both dispatchers): when the first invocation of a call is answered with a
\* text, the call returns that text and its record of invocations stays at that
\* one resource.
C4_FirstSuccessStep ==
    \A c \in Calls :
        (Resumed(c) /\ Len(calls[c].invoked) = 1) =>
            \A o \in Outcomes :
                (Answers(o) /\ (GroqChatResume(c, o) \/ ProvidersChatResume(c, o))) =>
                    /\ calls'[c].pc = "returned"
                    /\ calls'[c].result = o.text
                    /\ calls'[c].result \notin
                          DegradedTextsKeys(env) \cup DegradedTextsProviders
                    /\ calls'[c].invoked = calls[c].invoked

\* C4 (provider pool): the first resource a call invokes is the eligible provider
\* of least priority number.
C4_FirstByPriorityStep ==
    \A c \in Calls :
        (ProvidersMode /\ Arrives(c) /\ calls'[c].pc = "await") =>
            /\ Len(calls'[c].invoked) = 1
            /\ \E i \in ProvIdx :
                  /\ providers'[i].name = calls'[c].invoked[1]
                  /\ ~providers'[i].limited
                  /\ \A j \in ProvIdx :
                        ~providers'[j].limited => providers'[i].priority <= providers'[j].priority

\* C4: when the first resource selected by a call succeeds, the call returns that
\* backend text, never a degradation text, and invokes no other resource; with
\* R1 (priority 1) and R2 (priority 2) both available, R1 is the first selected.
C4_FirstSuccess == [][C4_FirstSuccessStep /\ C4_FirstByPriorityStep]_vars

\* C4 witness (scenario A): gemini and cohere are configured and available, a call
\* has returned the text "hi" and invoked gemini only.
C4_Witness ==
    \E c \in Calls :
        /\ ProvidersMode
        /\ Len(providers) >= 2
        /\ \A i \in ProvIdx : ~providers[i].limited
        /\ providers[1].priority = 1
        /\ calls[c].pc = "returned"
        /\ calls[c].result = <<"hi">>
        /\ calls[c].invoked = <<providers[1].name>>

----------------------------------------------------------------------------
(* C5 *)

\* the position of the provider named n in providers
ProviderIndex(n) == CHOOSE i \in ProvIdx : providers[i].name = n

\* C5 (multi-key dispatcher): a RateLimited failure of the invocation on key k
\* quarantines key k until now + 3600 s, quarantines no other key, and the call
\* goes on: it suspends on another key, not limited at that moment, when the
\* budget allows and such a key exists, and otherwise returns a degradation text.
C5_KeysStep ==
    \A c \in Calls : (KeysMode /\ Resumed(c)) => \A o \in Outcomes :
        (RateLimitedKeys(o) /\ GroqChatResume(c, o)) =>
            LET k == calls[c].keyIndex
            IN /\ keyStatus'[k] = [limited |-> TRUE, resetTime |-> now + ShortMs]
               /\ \A j \in KeyIdx \ {k} :
                     \/ keyStatus'[j] = keyStatus[j]
                     \/ /\ keyStatus[j].limited /\ now > keyStatus[j].resetTime
                        /\ keyStatus'[j] = [limited |-> FALSE, resetTime |-> Null]
               /\ IF /\ calls[c].attempt + 1 < MaxAttempts(env)
                     /\ \E j \in KeyIdx \ {k} : ~KeyQuarantined(j)
                  THEN /\ calls'[c].pc = "await"
                       /\ calls'[c].keyIndex # k
                       /\ ~keyStatus'[calls'[c].keyIndex].limited
                       /\ calls'[c].invoked = Append(calls[c].invoked, calls'[c].keyIndex)
                  ELSE /\ calls'[c].pc = "returned"
                       /\ calls'[c].invoked = calls[c].invoked
                       /\ calls'[c].result =
                             IF calls[c].attempt + 1 < MaxAttempts(env)
                             THEN NoKeysMsg(env) ELSE AllAttemptsFailedMsg

\* C5 (multi-provider dispatcher): a RateLimited failure of the invocation on a
\* provider quarantines that provider until now + 3600 s, changes no other
\* provider, and the call goes on with the next provider of those that were
\* eligible when it selected, or returns the degradation text after the last one.
C5_ProvidersStep ==
    \A c \in Calls : (ProvidersMode /\ Resumed(c)) => \A o \in Outcomes :
        (RateLimitedProviders(o) /\ ProvidersChatResume(c, o)) =>
            LET pos == calls[c].pos
                i == ProviderIndex(calls[c].available[pos])
            IN /\ providers'[i] =
                     [providers[i] EXCEPT !.limited = TRUE, !.resetTime = now + ShortMs]
               /\ \A j \in ProvIdx \ {i} : providers'[j] = providers[j]
               /\ IF pos < Len(calls[c].available)
                  THEN /\ calls'[c].pc = "await"
                       /\ calls'[c].invoked =
                             Append(calls[c].invoked, calls[c].available[pos + 1])
                       /\ calls[c].available[pos + 1] # calls[c].available[pos]
                  ELSE /\ calls'[c].pc = "returned"
                       /\ calls'[c].result = AllServicesUnavailableMsg
                       /\ calls'[c].invoked = calls[c].invoked

\* C5 (both): a later invocation of the call that is answered with a text makes
\* the call return that text.
C5_LaterSuccessStep ==
    \A c \in Calls :
        (Resumed(c) /\ Len(calls[c].invoked) > 1) =>
            \A o \in Outcomes :
                (Answers(o) /\ (GroqChatResume(c, o) \/ ProvidersChatResume(c, o))) =>
                    /\ calls'[c].pc = "returned"
                    /\ calls'[c].result = o.text
                    /\ calls'[c].invoked = calls[c].invoked

----------------------------------------------------------------------------
(* C6: no eligible resource *)

\* C6 (multi-key dispatcher, first attempt): a call that arrives while no key is
\* eligible returns the no-keys text within the same step and has invoked
\* nothing, although its whole attempt budget remains.
C6_KeysFirstStep ==
    \A c \in Calls :
        (KeysMode /\ Arrives(c) /\ \A i \in KeyIdx : KeyQuarantined(i)) =>
            \A h \in Histories :
                (h.iterable /\ GroqChatStart(c, h)) =>
                    /\ calls'[c].pc = "returned"
                    /\ calls'[c].result = NoKeysMsg(env)
                    /\ calls'[c].invoked = <<>>

\* C6 (multi-key dispatcher, later attempt): when an invocation fails RateLimited,
\* attempts remain and no other key is eligible, the call returns the no-keys
\* text within the same step and invokes nothing more.
C6_KeysLaterStep ==
    \A c \in Calls :
        ( /\ KeysMode /\ Resumed(c)
          /\ calls[c].attempt + 1 < MaxAttempts(env)
          /\ \A i \in KeyIdx \ {calls[c].keyIndex} : KeyQuarantined(i) ) =>
            \A o \in Outcomes :
                (RateLimitedKeys(o) /\ GroqChatResume(c, o)) =>
                    /\ calls'[c].pc = "returned"
                    /\ calls'[c].result = NoKeysMsg(env)
                    /\ calls'[c].invoked = calls[c].invoked

\* C6 (multi-provider dispatcher): a call that arrives while no provider is
\* eligible returns the no-providers text within the same step and has invoked
\* nothing.
C6_ProvidersStep ==
    \A c \in Calls :
        (ProvidersMode /\ Arrives(c) /\ \A i \in ProvIdx : ProviderQuarantined(i)) =>
            \A h \in Histories :
                ProvidersChatStart(c, h) =>
                    /\ calls'[c].pc = "returned"
                    /\ calls'[c].result = NoProvidersMsg
                    /\ calls'[c].invoked = <<>>

\* C6: whenever selection finds no eligible resource, at the first or at a later
\* attempt of a call, the call returns a degradation text at once and invokes no
\* backend, even when attempts remain in the budget.
C6_NoEligible == [][C6_KeysFirstStep /\ C6_KeysLaterStep /\ C6_ProvidersStep]_vars

\* C6 witness: a call of the multi-key dispatcher has returned the no-keys text
\* after fewer invocations than its budget allows, every key being quarantined.
C6_Witness ==
    \E c \in Calls :
        /\ KeysMode
        /\ calls[c].pc = "returned"
        /\ calls[c].result = NoKeysMsg(env)
        /\ Len(calls[c].invoked) >= 1
        /\ Len(calls[c].invoked) < MaxAttempts(env)
        /\ KeyIdx # {}
        /\ \A i \in KeyIdx : KeyQuarantined(i)

----------------------------------------------------------------------------
(* C7: Transient failures *)


\* C7 (multi-key dispatcher): a Transient failure changes no key's status and
\* ends the call at once with the error-occurred text; no further key is invoked.
C7_KeysStep ==
    \A c \in Calls : (KeysMode /\ Resumed(c)) => \A o \in Outcomes :
        (TransientKeys(o) /\ GroqChatResume(c, o)) =>
            /\ keyStatus' = keyStatus
            /\ currentIndex' = currentIndex
            /\ calls'[c].pc = "returned"
            /\ calls'[c].result = ErrorOccurredMsg
            /\ calls'[c].invoked = calls[c].invoked

\* C7 (multi-provider dispatcher): a Transient failure changes no provider's
\* status; the call goes on with the next provider of its selection, and after
\* the last one it returns the all-services-unavailable text.
C7_ProvidersStep ==
    \A c \in Calls : (ProvidersMode /\ Resumed(c)) => \A o \in Outcomes :
        (TransientProviders(o) /\ ProvidersChatResume(c, o)) =>
            LET pos == calls[c].pos
            IN /\ providers' = providers
               /\ IF pos < Len(calls[c].available)
                  THEN /\ calls'[c].pc = "await"
                       /\ calls'[c].invoked =
                             Append(calls[c].invoked, calls[c].available[pos + 1])
                  ELSE /\ calls'[c].pc = "returned"
                       /\ calls'[c].result = AllServicesUnavailableMsg
                       /\ calls'[c].invoked = calls[c].invoked

\* C7 as stated, for the multi-key dispatcher: a Transient failure quarantines
\* nothing and consumes one attempt, and the call goes on with the next key while
\* attempts remain; it ends with the attempts-exhausted text when the budget is
\* used up.
C7_KeysContinueStep ==
    \A c \in Calls : (KeysMode /\ Resumed(c)) => \A o \in Outcomes :
        (TransientKeys(o) /\ GroqChatResume(c, o)) =>
            /\ keyStatus' = keyStatus
            /\ IF calls[c].attempt + 1 < MaxAttempts(env)
               THEN /\ calls'[c].pc = "await"
                    /\ calls'[c].attempt = calls[c].attempt + 1
                    /\ Len(calls'[c].invoked) = Len(calls[c].invoked) + 1
               ELSE /\ calls'[c].pc = "returned"
                    /\ calls'[c].result = AllAttemptsFailedMsg

----------------------------------------------------------------------------
(* C8: AuthFailed failures *)

\* C8 (multi-provider dispatcher): an AuthFailed failure quarantines the invoked
\* provider until now + 86400 s and the call goes on with the next provider.
C8_AuthStep ==
    \A c \in Calls : (ProvidersMode /\ Resumed(c)) => \A o \in Outcomes :
        (AuthFailedProviders(o) /\ ProvidersChatResume(c, o)) =>
            LET pos == calls[c].pos
                i == ProviderIndex(calls[c].available[pos])
            IN /\ providers'[i].limited
               /\ providers'[i].resetTime = now + LongMs
               /\ IF pos < Len(calls[c].available)
                  THEN /\ calls'[c].pc = "await"
                       /\ calls'[c].invoked =
                             Append(calls[c].invoked, calls[c].available[pos + 1])
                  ELSE calls'[c].pc = "returned"

\* C8 (multi-provider dispatcher): a window that still has more than the short
\* cooldown to run, which only an AuthFailed failure opens, is not shortened by
\* any step: the provider stays limited and its resetTime does not decrease.
C8_WindowKeptStep ==
    \A i \in ProvIdx :
        (ProvidersMode /\ providers[i].limited /\ providers[i].resetTime > now + ShortMs) =>
            /\ providers'[i].limited
            /\ providers'[i].resetTime >= providers[i].resetTime

\* C8 as stated, on the multi-provider dispatcher: an AuthFailed failure at time t
\* quarantines the provider until t + 86400 s, the call continues with the next
\* provider, and no later classification, a RateLimited one of a request in
\* flight on the same provider included, shortens that window.
C8_LongWindowDominates == [][C8_AuthStep /\ C8_WindowKeptStep]_vars

----------------------------------------------------------------------------
(* C9: quarantining a quarantined resource *)

\* C9 (markKeyLimited): when an invocation on key k fails RateLimited, key k is
\* limited with resetTime exactly now + cooldown, whatever its status was.
C9_KeysStep ==
    \A c \in Calls : (KeysMode /\ Resumed(c)) => \A o \in Outcomes :
        (RateLimitedKeys(o) /\ GroqChatResume(c, o)) =>
            keyStatus'[calls[c].keyIndex] =
                [limited |-> TRUE,
                 resetTime |-> now + KeyCooldownSeconds(env) * MsPerSecond]

\* C9 (markProviderLimited): when an invocation on a provider fails RateLimited
\* (AuthFailed), the provider is limited with resetTime exactly now + 3600 s
\* (now + 86400 s), whatever its status was.
C9_ProvidersStep ==
    \A c \in Calls : (ProvidersMode /\ Resumed(c)) => \A o \in Outcomes :
        ((RateLimitedProviders(o) \/ AuthFailedProviders(o)) /\ ProvidersChatResume(c, o)) =>
            LET i == ProviderIndex(calls[c].available[calls[c].pos])
            IN /\ providers'[i].limited
               /\ providers'[i].resetTime =
                     now + (IF RateLimitedProviders(o) THEN ShortMs ELSE LongMs)

\* C9: quarantining a resource at time now with duration s sets its until to
\* exactly now + s, also when it is quarantined already: the old window is
\* neither extended nor kept when it ends later.
C9_Overwrite == [][C9_KeysStep /\ C9_ProvidersStep]_vars

\* C9 witness: key 1 was quarantined at the clock's first instant (key 2 is
\* limited until 1 + 3600 s, and it is only selected, and so only quarantined,
\* by a call that failed RateLimited on key 1 before), and a second call that was
\* in flight on key 1 has quarantined it again later, inside that window: its
\* resetTime is now + 3600 s.
C9_Witness ==
    /\ KeysMode
    /\ Len(keyStatus) = 2
    /\ keyStatus[2] = [limited |-> TRUE, resetTime |-> 1 + ShortMs]
    /\ keyStatus[1] = [limited |-> TRUE, resetTime |-> now + ShortMs]
    /\ now > 1
    /\ now <= ShortMs
    /\ \A c \in Calls : calls[c].pc = "returned" /\ calls[c].invoked[1] = 1

----------------------------------------------------------------------------
(* C10: the degradation texts by terminal cause *)

\* the text chatWithAI returns when no resource was ever configured
NoneConfiguredTextKeys ==
    LET e == CHOOSE x \in EnvsKeys : UniqueKeys(x) = <<>>
    IN LoopKeys(IdleCall, 0, InitKeyStatus(e), 1, e, 1).call.result
NoneConfiguredTextProviders ==
    SelectProviders(IdleCall.history, <<>>, 1).call.result

\* the text groq-ai.js returns for an empty pool in environment e
EmptyPoolTextKeys(e) == LoopKeys(IdleCall, 0, <<>>, 1, e, 1).call.result

\* a step in which the call c ends for want of attempts: the last invocation its
\* budget (groq-ai.js) or its selection (part_002) allows has failed RateLimited
ExhaustsKeys(c, o) ==
    /\ calls[c].attempt + 1 >= MaxAttempts(env)
    /\ RateLimitedKeys(o) /\ GroqChatResume(c, o)
ExhaustsProviders(c, o) ==
    /\ calls[c].pos = Len(calls[c].available)
    /\ ~o.ok /\ ~o.error.nullish /\ ProvidersChatResume(c, o)

\* C10 (attempts exhausted): the text of a call that ends for want of attempts
\* differs from the text for no configured resource and from the text the call
\* would get now if it arrived and found every resource quarantined.
C10_ExhaustedStep ==
    \A c \in Calls : Resumed(c) => \A o \in Outcomes :
        /\ ExhaustsKeys(c, o) =>
              /\ calls'[c].pc = "returned"
              /\ calls'[c].result = AllAttemptsFailedMsg
              /\ calls'[c].result \notin {NoneConfiguredTextKeys, EmptyPoolTextKeys(env)}
        /\ ExhaustsProviders(c, o) =>
              /\ calls'[c].pc = "returned"
              /\ calls'[c].result = AllServicesUnavailableMsg
              /\ calls'[c].result # NoneConfiguredTextProviders

\* C10 as stated, for the cause 'all resources currently quarantined': a call that
\* arrives while every configured resource is quarantined returns a text other
\* than the one for no configured resource.
C10_QuarantinedDiffersStep ==
    \A c \in Calls : Arrives(c) => \A h \in Histories :
        /\ (KeyIdx # {} /\ (\A i \in KeyIdx : KeyQuarantined(i))
               /\ h.iterable /\ GroqChatStart(c, h)) =>
              calls'[c].result # NoneConfiguredTextKeys
        /\ (ProvIdx # {} /\ (\A i \in ProvIdx : ProviderQuarantined(i))
               /\ ProvidersChatStart(c, h)) =>
              calls'[c].result # NoneConfiguredTextProviders

\* C10 as stated: the texts for 'no resources ever configured', 'all resources
\* currently quarantined' and 'attempts exhausted' are pairwise different.
C10_ThreeTexts == [][C10_QuarantinedDiffersStep /\ C10_ExhaustedStep]_vars

\* C10 (all quarantined): a call that arrives while every configured resource is
\* quarantined returns the text of an empty pool: in part_002 the very text for no
\* configured provider, in groq-ai.js the no-keys text of this environment, which
\* is the text for no configured key when neither GROQ_API_KEYS nor GROQ_API_KEY
\* is set.
C10_QuarantinedSameStep ==
    \A c \in Calls : Arrives(c) => \A h \in Histories :
        /\ (KeyIdx # {} /\ (\A i \in KeyIdx : KeyQuarantined(i))
               /\ h.iterable /\ GroqChatStart(c, h)) =>
              /\ calls'[c].result = EmptyPoolTextKeys(env)
              /\ (~TruthyFields(env.GROQ_API_KEYS) /\ ~TruthyStr(env.GROQ_API_KEY)) =>
                    calls'[c].result = NoneConfiguredTextKeys
        /\ (ProvIdx # {} /\ (\A i \in ProvIdx : ProviderQuarantined(i))
               /\ ProvidersChatStart(c, h)) =>
              calls'[c].result = NoneConfiguredTextProviders

\* C10 (amended): the degradation text tells 'attempts exhausted' from 'no
\* eligible resource', and does not tell 'no resources ever configured' from 'all
\* resources currently quarantined'.
C10_TwoTexts == [][C10_QuarantinedSameStep /\ C10_ExhaustedStep]_vars

\* C10 witness: on the multi-provider dispatcher one call has ended after its
\* last provider failed, with the all-services-unavailable text, and another
\* call, arriving while every configured provider was quarantined, has returned
\* the no-providers text without an invocation.
C10_Witness ==
    /\ ProvidersMode
    /\ ProvIdx # {}
    /\ \A i \in ProvIdx : ProviderQuarantined(i)
    /\ \E c, d \in Calls :
          /\ calls[c].pc = "returned"
          /\ calls[c].invoked # <<>>
          /\ calls[c].result = AllServicesUnavailableMsg
          /\ calls[d].pc = "returned"
          /\ calls[d].invoked = <<>>
          /\ calls[d].result = NoProvidersMsg

----------------------------------------------------------------------------
(* C11: rotation *)

\* C11: with at least two keys, all of them available, and no health change since
\* the last selection, the next selection returns another key than the last one
\* did.  The last selection returned the key under the cursor (part_001:56), and
\* a selection has been made once a call has invoked a key.
C11_Rotates ==
    [][\A c \in Calls :
          ( /\ KeysMode /\ Arrives(c)
            /\ Len(keyStatus) >= 2
            /\ \A i \in KeyIdx : keyStatus[i] = [limited |-> FALSE, resetTime |-> Null]
            /\ \E d \in Calls : calls[d].invoked # <<>>
            /\ calls'[c].pc = "await" ) =>
              calls'[c].keyIndex # currentIndex]_vars

----------------------------------------------------------------------------
(* C12: no operational detail in the returned text *)

\* C12: the text a call returns is the backend's text or a degradation text that
\* is the same in every configuration of the process: it does not vary with the
\* environment variables that are set.
C12_NoOperationalDetail ==
    \A c \in Calls :
        calls[c].pc = "returned" =>
            /\ KeysMode =>
                  \A e \in EnvsKeys :
                      calls[c].result \in BackendTexts \cup DegradedTextsKeys(e)
            /\ ProvidersMode =>
                  calls[c].result \in BackendTexts \cup DegradedTextsProviders

----------------------------------------------------------------------------
(* C13: the diagnostic snapshot *)

\* C13 (getKeysInfo): a step that returns a snapshot of the key pool leaves every
\* key's limited flag and resetTime and the cursor as they were, and reports
\* them as they are, a lapsed window included.
C13_KeysStep ==
    (KeysMode /\ snapshot' # NoSnapshot) =>
        /\ keyStatus' = keyStatus
        /\ currentIndex' = currentIndex
        /\ Len(snapshot'.info) = Len(keyStatus)
        /\ \A i \in KeyIdx :
              snapshot'.info[i] = [index |-> i - 1, limited |-> keyStatus[i].limited,
                              resetTime |-> keyStatus[i].resetTime]

\* C13 (getProvidersInfo): likewise for the provider pool.
C13_ProvidersStep ==
    (ProvidersMode /\ snapshot' # NoSnapshot) =>
        /\ providers' = providers
        /\ Len(snapshot'.info) = Len(providers)
        /\ \A i \in ProvIdx :
              /\ snapshot'.info[i].name = providers[i].name
              /\ snapshot'.info[i].limited = providers[i].limited
              /\ snapshot'.info[i].resetTime = providers[i].resetTime

\* C13: the diagnostic snapshot is read-only: it changes no limited flag, no
\* resetTime and not the cursor, and it does not run the lazy expiry reset.
C13_ReadOnly == [][C13_KeysStep /\ C13_ProvidersStep]_vars

\* C13 witness: a snapshot has just reported as limited a key whose window has
\* lapsed, and the key is still limited in the pool.
C13_Witness ==
    /\ KeysMode
    /\ snapshot # NoSnapshot
    /\ \E i \in KeyIdx :
          /\ snapshot.info[i].limited
          /\ now > snapshot.info[i].resetTime
          /\ keyStatus[i] = [limited |-> TRUE, resetTime |-> snapshot.info[i].resetTime]

-----------------------------------------------------------------------------
\* C14: the conversation handed to the Groq backend (groq-ai.js, and chatWithGroq
\* of part_002) is the preamble, then the caller's history in its order, then
\* the user message as the last entry, and it holds exactly one system-role
\* entry whatever the history contains.
SystemEntries(m) == { i \in 1..Len(m) : m[i].role = "system" }
SendsToGroq(c) ==
    /\ calls[c].pc = "await"
    /\ KeysMode \/ calls[c].invoked[Len(calls[c].invoked)] = "groq"
C14_PreambleOnce ==
    \A c \in Calls :
        SendsToGroq(c) =>
            LET m == calls[c].messages
                h == calls[c].history.items
            IN  /\ Len(m) = Len(h) + 2
                /\ m[1] = Preamble
                /\ SubSeq(m, 2, Len(m) - 1) = h
                /\ m[Len(m)] = Entry("user", UserMessage)
                /\ Cardinality(SystemEntries(m)) = 1

-----------------------------------------------------------------------------
\* C15: every backend invocation is bounded by a timeout handled as a Transient
\* failure, so a call that awaits a backend eventually stops awaiting it, even
\* when the backend never answers.
C15_EventuallyReturns ==
    \A c \in Calls : (calls[c].pc = "await") ~> (calls[c].pc # "await")

-----------------------------------------------------------------------------
\* C16: the key list contains each distinct configured key exactly once, in the
\* order of first occurrence across GROQ_API_KEYS, GROQ_API_KEY, GROQ_API_KEY_1,
\* GROQ_API_KEY_2, and clients, keyStatus and the key list have equal length.
FirstAt(s, k) == CHOOSE i \in 1..Len(s) : s[i] = k /\ \A j \in 1..(i - 1) : s[j] # k
Configured(e) ==
    { e.GROQ_API_KEYS[i] : i \in 1..Len(e.GROQ_API_KEYS) }
        \cup { e.GROQ_API_KEY, e.GROQ_API_KEY_1, e.GROQ_API_KEY_2 }
Occurrences(e) ==
    e.GROQ_API_KEYS \o << e.GROQ_API_KEY, e.GROQ_API_KEY_1, e.GROQ_API_KEY_2 >>
C16_DedupFirstSeen ==
    KeysMode =>
        LET u == UniqueKeys(env)
            all == Occurrences(env)
        IN  /\ Range(u) = Configured(env) \ { "" }
            /\ \A i, j \in 1..Len(u) : i # j => u[i] # u[j]
            /\ \A i, j \in 1..Len(u) : i < j => FirstAt(all, u[i]) < FirstAt(all, u[j])
            /\ Len(Clients(env)) = Len(u)
            /\ \A i \in 1..Len(u) : Clients(env)[i].apiKey = u[i]
            /\ Len(keyStatus) = Len(u)
\* a pool built from GROQ_API_KEYS=k1,k2,k1 GROQ_API_KEY=k3 GROQ_API_KEY_1=k2
\* GROQ_API_KEY_2=k1 has served a call that got as far as its third key
C16_Witness ==
    /\ KeysMode
    /\ env.GROQ_API_KEYS = <<"k1", "k2", "k1">>
    /\ env.GROQ_API_KEY = "k3" /\ env.GROQ_API_KEY_1 = "k2" /\ env.GROQ_API_KEY_2 = "k1"
    /\ UniqueKeys(env) = <<"k1", "k2", "k3">>
    /\ Len(keyStatus) = 3
    /\ \E c \in Calls : calls[c].invoked = <<1, 2, 3>>

-----------------------------------------------------------------------------
\* C17: a successful invocation has no side effect on health state: the step
\* in which a call receives a successful answer and returns it changes no
\* resource's limited flag or resetTime.  (The selection before the invocation
\* is the previous step of the call; nothing of the call runs in between.)
SuccessTextsKeys == (BackendTexts \ { <<>> }) \cup { ApologyMsg }
SuccessTextsProviders == BackendTexts \ { <<>> }
ReturnsSuccess(c) ==
    /\ Resumed(c)
    /\ calls'[c].pc = "returned"
    /\ \/ KeysMode /\ calls'[c].result \in SuccessTextsKeys
       \/ ProvidersMode /\ calls'[c].result \in SuccessTextsProviders
C17_SuccessStep ==
    \A c \in Calls :
        ReturnsSuccess(c) => keyStatus' = keyStatus /\ providers' = providers
C17_SuccessNoEffect == [][C17_SuccessStep]_vars
\* a call has returned the answer of its second key while its first key, which
\* it quarantined itself, is still quarantined
C17_Witness ==
    /\ KeysMode
    /\ \E c \in Calls :
          /\ calls[c].pc = "returned"
          /\ calls[c].result \in SuccessTextsKeys
          /\ calls[c].invoked = <<1, 2>>
    /\ KeyQuarantined(1)
    /\ ~KeyQuarantined(2)

-----------------------------------------------------------------------------
\* C18: every attempt invokes a resource that is eligible at the moment the
\* attempt starts: in a step in which a call starts an invocation, the resource
\* invoked is not quarantined with an unexpired window, whatever other calls
\* have done since this call began.
StartsInvocation(c) == calls'[c].pc = "await" /\ calls'[c] # calls[c]
Invoked(c) == calls'[c].invoked[Len(calls'[c].invoked)]
C18_EligibleStep ==
    \A c \in Calls :
        StartsInvocation(c) =>
            /\ KeysMode =>
                  ~(keyStatus'[Invoked(c)].limited
                        /\ now' <= keyStatus'[Invoked(c)].resetTime)
            /\ ProvidersMode =>
                  ~(providers'[ProviderIndex(Invoked(c))].limited
                        /\ now' <= providers'[ProviderIndex(Invoked(c))].resetTime)
C18_InvokesEligible == [][C18_EligibleStep]_vars

-----------------------------------------------------------------------------
\* C19: a failure quarantines the resource that was actually invoked: in a step
\* in which a suspended call is resumed, every resource whose quarantine is set
\* or renewed is the one that call selected before its network call (the last
\* one it invoked), whatever other calls did to the cursor and to the health of
\* other resources in the meantime.  Selection and quarantine are one step each.
C19_KeysStep ==
    \A c \in Calls :
        (KeysMode /\ Resumed(c)) =>
            \A i \in KeyIdx :
                (keyStatus'[i].limited /\ keyStatus'[i] # keyStatus[i]) =>
                    /\ i = calls[c].keyIndex
                    /\ i = calls[c].invoked[Len(calls[c].invoked)]
C19_ProvidersStep ==
    \A c \in Calls :
        (ProvidersMode /\ Resumed(c)) =>
            \A i \in ProvIdx :
                (providers'[i].limited /\ providers'[i] # providers[i]) =>
                    /\ providers[i].name = calls[c].available[calls[c].pos]
                    /\ providers[i].name = calls[c].invoked[Len(calls[c].invoked)]
C19_QuarantinesInvoked == [][C19_KeysStep /\ C19_ProvidersStep]_vars
\* two calls were in flight on key 1; one failed RateLimited and moved the cursor
\* to key 2; later the other failed RateLimited too and renewed the quarantine
\* of key 1, not of the key under the cursor
C19_Witness ==
    /\ KeysMode
    /\ \A c \in Calls : calls[c].pc = "await" /\ calls[c].invoked = <<1, 2>>
    /\ currentIndex = 2
    /\ now > 1
    /\ keyStatus[1] = [limited |-> TRUE, resetTime |-> now + ShortMs]
    /\ ~keyStatus[2].limited

-----------------------------------------------------------------------------
\* C20: within one call on the provider pool, resources are invoked in strictly
\* ascending priority order (gemini 1, cohere 2, groq 3), skipping those not
\* available at the selection the call makes when it arrives; a resource is
\* invoked only after every available resource of higher priority (lower
\* number) was invoked by this call and the call went on past it.
PriorityOf(n) == providers[ProviderIndex(n)].priority
Ascending(names) ==
    \A i, j \in 1..Len(names) : i < j => PriorityOf(names[i]) < PriorityOf(names[j])
C20_Step ==
    \A c \in Calls :
        (ProvidersMode /\ calls'[c] # calls[c]) =>
            /\ Ascending(calls'[c].invoked)
            /\ calls'[c].pc = "await" =>
                  /\ Ascending(calls'[c].available)
                  /\ calls'[c].invoked = SubSeq(calls'[c].available, 1, calls'[c].pos)
            /\ (Arrives(c) /\ calls'[c].pc = "await") =>
                  Range(calls'[c].available)
                      = { providers'[i].name : i \in { j \in ProvIdx : ~providers'[j].limited } }
            /\ (Resumed(c) /\ calls'[c].pc = "await") =>
                  /\ calls'[c].available = calls[c].available
                  /\ calls'[c].pos = calls[c].pos + 1
C20_PriorityOrder == [][C20_Step]_vars
\* three providers are configured and gemini is quarantined; a call that arrived
\* since has invoked cohere, then groq
C20_Witness ==
    /\ ProvidersMode
    /\ Len(providers) = 3
    /\ ProviderQuarantined(ProviderIndex("gemini"))
    /\ \E c \in Calls : calls[c].pc = "await" /\ calls[c].invoked = <<"cohere", "groq">>

-----------------------------------------------------------------------------
\* C21: a failed selection does not move the rotation cursor: a step in which
\* getAvailableClient returns null (the call answers with the no-keys text)
\* leaves currentIndex as it was, and currentIndex changes only in a step in
\* which a selection returns a key, to the index of that key.
SelectionFails(c) ==
    /\ calls'[c] # calls[c]
    /\ calls'[c].pc = "returned"
    /\ calls'[c].result = NoKeysMsg(env)
C21_Step ==
    KeysMode =>
        /\ \A c \in Calls : SelectionFails(c) => currentIndex' = currentIndex
        /\ currentIndex' # currentIndex =>
              \E c \in Calls : calls'[c] # calls[c] /\ SelectsKey(c, currentIndex')
C21_CursorKept == [][C21_Step]_vars
\* both keys of a pool of two are quarantined, the cursor stands on the second,
\* and the call that quarantined them got null from its third selection
C21_Witness ==
    /\ KeysMode
    /\ Len(keyStatus) = 2
    /\ \A i \in KeyIdx : KeyQuarantined(i)
    /\ currentIndex = 2
    /\ \E c \in Calls :
          /\ calls[c].pc = "returned"
          /\ calls[c].invoked = <<1, 2>>
          /\ calls[c].result = NoKeysMsg(env)

-----------------------------------------------------------------------------
\* C22: failure classification is total and follows the rule: status 429 or a
\* message of the rate-limit vocabulary is RateLimited; otherwise status 401 or
\* a message of the unauthorized/invalid-key vocabulary is AuthFailed; every
\* other rejection, one without status and message included, is Transient; a
\* rejection matching both is RateLimited.  Each dispatcher handles a rejection
\* as its class prescribes.
HasStatus(err, n) ==
    ~err.nullish /\ (err.status = n \/ (ProvidersMode /\ err.statusCode = n))
HasMessageIn(err, keysVocabulary, providersVocabulary) ==
    /\ ~err.nullish
    /\ err.message \in (IF KeysMode THEN keysVocabulary ELSE providersVocabulary)
ClassOf(err) ==
    IF HasStatus(err, 429) \/ HasMessageIn(err, RateLimitRegexKeys, RateLimitRegexProviders)
    THEN "RateLimited"
    ELSE IF HasStatus(err, 401) \/ HasMessageIn(err, AuthRegexKeys, AuthRegexProviders)
    THEN "AuthFailed"
    ELSE "Transient"
HandledAsKeys(c, class) ==
    LET k == calls[c].keyIndex
    IN CASE class = "RateLimited" ->
              /\ calls'[c].pc \in { "await", "returned" }
              /\ keyStatus'[k] = [limited |-> TRUE,
                                   resetTime |-> now + KeyCooldownSeconds(env) * MsPerSecond]
         [] class = "AuthFailed" ->
              /\ calls'[c].pc = "returned" /\ calls'[c].result = AuthErrorMsg
              /\ keyStatus' = keyStatus
         [] class = "Transient" ->
              /\ calls'[c].pc = "returned" /\ calls'[c].result = ErrorOccurredMsg
              /\ keyStatus' = keyStatus
HandledAsProviders(c, class) ==
    LET i == ProviderIndex(calls[c].available[calls[c].pos])
    IN /\ calls'[c].pc \in { "await", "returned" }
       /\ CASE class = "RateLimited" ->
                 providers' = [providers EXCEPT ![i].limited = TRUE,
                                                ![i].resetTime = now + ShortMs]
            [] class = "AuthFailed" ->
                 providers' = [providers EXCEPT ![i].limited = TRUE,
                                                ![i].resetTime = now + LongMs]
            [] class = "Transient" -> providers' = providers
C22_Step ==
    \A c \in Calls :
        Resumed(c) =>
            \A o \in OutcomesClassify :
                /\ (~o.ok /\ GroqChatResume(c, o)) => HandledAsKeys(c, ClassOf(o.error))
                /\ (~o.ok /\ ProvidersChatResume(c, o)) =>
                      HandledAsProviders(c, ClassOf(o.error))
C22_ClassificationTotal == [][C22_Step]_vars

-----------------------------------------------------------------------------
\* C23: quarantine is never permanent and expiry is lazy.  A limited resource
\* becomes available only in a step that makes a selection (getAvailableClient,
\* getAvailableProviders) at a time later than its resetTime, never in a step
\* of the clock or of the snapshot; a selection made after the clock has passed
\* the resetTime of a limited resource resets it to limited = false, resetTime =
\* null; and a resource that a selection leaves limited is inside a window that
\* ends: its resetTime is an instant not before the clock.
IsTimestamp(x) == x # Null /\ x # NaN
Passed(resetTime) == IsTimestamp(resetTime) /\ now > resetTime
KeySelection(c) ==
    \/ Arrives(c) /\ calls'[c].pc # "thrown"
    \/ /\ Resumed(c)
       /\ \/ calls'[c].pc = "await"
          \/ calls'[c].pc = "returned" /\ calls'[c].result = NoKeysMsg(env)
C23_KeysStep ==
    KeysMode =>
        \A i \in KeyIdx :
            /\ (keyStatus[i].limited /\ ~keyStatus'[i].limited) =>
                  /\ Passed(keyStatus[i].resetTime)
                  /\ keyStatus'[i].resetTime = Null
                  /\ now' = now
                  /\ snapshot' = NoSnapshot
                  /\ \E c \in Calls : KeySelection(c)
            /\ (keyStatus[i].limited /\ Passed(keyStatus[i].resetTime)) =>
                  \A c \in Calls :
                      (KeySelection(c) /\ ~(Resumed(c) /\ calls[c].keyIndex = i)) =>
                          keyStatus'[i] = [limited |-> FALSE, resetTime |-> Null]
            /\ ((\E c \in Calls : KeySelection(c)) /\ keyStatus'[i].limited) =>
                  /\ IsTimestamp(keyStatus'[i].resetTime)
                  /\ now <= keyStatus'[i].resetTime
C23_ProvidersStep ==
    ProvidersMode =>
        \A i \in ProvIdx :
            /\ (providers[i].limited /\ ~providers'[i].limited) =>
                  /\ Passed(providers[i].resetTime)
                  /\ providers'[i].resetTime = Null
                  /\ now' = now
                  /\ snapshot' = NoSnapshot
                  /\ \E c \in Calls : Arrives(c)
            /\ (providers[i].limited /\ Passed(providers[i].resetTime)) =>
                  \A c \in Calls :
                      Arrives(c) => ~providers'[i].limited /\ providers'[i].resetTime = Null
            /\ ((\E c \in Calls : Arrives(c)) /\ providers'[i].limited) =>
                  /\ IsTimestamp(providers'[i].resetTime)
                  /\ now <= providers'[i].resetTime
C23_NeverPermanent == [][C23_KeysStep /\ C23_ProvidersStep]_vars

-----------------------------------------------------------------------------
\* C24: the pool is fixed after startup: in every reachable state the resources
\* (clients, keyStatus, providers) are the ones built at process start, in the
\* same order; only limited, resetTime and the cursor vary.
C24_PoolFixed ==
    /\ KeysMode =>
          /\ Len(keyStatus) = Len(Clients(env))
          /\ DOMAIN keyStatus = DOMAIN InitKeyStatus(env)
          /\ \A i \in KeyIdx : DOMAIN keyStatus[i] = { "limited", "resetTime" }
          /\ providers = <<>>
    /\ ProvidersMode =>
          /\ Len(providers) = Len(InitProviders(env))
          /\ \A i \in ProvIdx :
                [providers[i] EXCEPT !.limited = FALSE, !.resetTime = Null]
                    = InitProviders(env)[i]
          /\ keyStatus = <<>>
\* three providers; gemini and cohere are quarantined, and a call that arrived
\* since, whose selection held groq alone, awaits groq
C24_Witness ==
    /\ ProvidersMode
    /\ Len(providers) = 3
    /\ ProviderQuarantined(1)
    /\ ProviderQuarantined(2)
    /\ \E c \in Calls : calls[c].pc = "await" /\ calls[c].invoked = <<"groq">>

-----------------------------------------------------------------------------
\* C25: getAvailableClient returns the available key at the smallest cyclic
\* distance from currentIndex (scanning currentIndex, currentIndex+1, ... modulo
\* the pool size) and sets currentIndex to the returned index; in every
\* reachable state of a non-empty pool currentIndex is an index of the pool
\* (0 <= currentIndex < size in the code, 1..size here).
CyclicDistance(from, to, n) == (to - from + n) % n
C25_Step ==
    KeysMode =>
        /\ Len(keyStatus) > 0 => currentIndex \in KeyIdx /\ currentIndex' \in KeyIdx
        /\ \A c \in Calls : \A i \in KeyIdx :
              SelectsKey(c, i) =>
                  /\ ~keyStatus'[i].limited
                  /\ \A j \in KeyIdx :
                        ~keyStatus'[j].limited =>
                            CyclicDistance(currentIndex, i, Len(keyStatus))
                                <= CyclicDistance(currentIndex, j, Len(keyStatus))
                  /\ currentIndex' = i
C25_NearestFromCursor == [][C25_Step]_vars
\* the cursor stands on key 2 and both keys are available: a call left the cursor
\* there, the window of key 1 has lapsed, and the selection of a new call has
\* returned key 2 and reset key 1
C25_Witness ==
    /\ KeysMode
    /\ Len(keyStatus) = 2
    /\ now > 1 + ShortMs
    /\ currentIndex = 2
    /\ \A i \in KeyIdx : keyStatus[i] = [limited |-> FALSE, resetTime |-> Null]
    /\ \E c \in Calls : calls[c].pc = "await" /\ calls[c].invoked = <<2>>

-----------------------------------------------------------------------------
\* C26: health state is well-formed in every reachable state: for each key and
\* each provider, limited is false exactly when resetTime is null, and limited
\* is true exactly when resetTime is a timestamp.
C26_WellFormed ==
    /\ \A i \in KeyIdx :
          /\ ~keyStatus[i].limited <=> keyStatus[i].resetTime = Null
          /\ keyStatus[i].limited <=> IsTimestamp(keyStatus[i].resetTime)
    /\ \A i \in ProvIdx :
          /\ ~providers[i].limited <=> providers[i].resetTime = Null
          /\ providers[i].limited <=> IsTimestamp(providers[i].resetTime)

-----------------------------------------------------------------------------
\* C27: within one call no resource is invoked more than once, whatever the
\* backends answer, when the cooldown is positive and no window lapses during
\* the call (SpecWithin: the cooldowns are 3600 s and 86400 s and the clock
\* passes the end of no window).
C27_InvokedOnce ==
    \A c \in Calls :
        \A p, q \in 1..Len(calls[c].invoked) :
            p # q => calls[c].invoked[p] # calls[c].invoked[q]
\* time has passed; a call with a budget of two attempts has invoked key 1 and
\* key 2, both failed RateLimited and are quarantined, and it has given up
C27_Witness ==
    /\ KeysMode
    /\ Len(keyStatus) = 2
    /\ now > 1
    /\ \A i \in KeyIdx : KeyQuarantined(i)
    /\ \E c \in Calls :
          /\ calls[c].pc = "returned"
          /\ calls[c].invoked = <<1, 2>>
          /\ calls[c].result = AllAttemptsFailedMsg

-----------------------------------------------------------------------------
\* C28: chatWithAI never returns an empty text.  When a backend answers without
\* content, the multi-key dispatcher returns the apology text; the
\* multi-provider dispatcher quarantines nothing, goes on to the next provider
\* of its selection, and returns the all-unavailable text when there is none.
EmptyAnswer == Success(<<>>)
C28_NeverEmpty ==
    \A c \in Calls : calls[c].pc = "returned" => calls[c].result # <<>>
C28_Step ==
    \A c \in Calls :
        /\ (Resumed(c) /\ GroqChatResume(c, EmptyAnswer)) =>
              /\ calls'[c].pc = "returned"
              /\ calls'[c].result = ApologyMsg
        /\ (Resumed(c) /\ ProvidersChatResume(c, EmptyAnswer)) =>
              /\ providers' = providers
              /\ IF calls[c].pos < Len(calls[c].available)
                 THEN /\ calls'[c].pc = "await"
                      /\ calls'[c].invoked =
                            Append(calls[c].invoked, calls[c].available[calls[c].pos + 1])
                 ELSE /\ calls'[c].pc = "returned"
                      /\ calls'[c].result = AllServicesUnavailableMsg
C28_EmptyAnswer == []C28_NeverEmpty /\ [][C28_Step]_vars
\* a call of the multi-key dispatcher has returned the apology text after one
\* invocation, with no key quarantined
C28_Witness ==
    /\ KeysMode
    /\ \A i \in KeyIdx : ~keyStatus[i].limited
    /\ \E c \in Calls :
          /\ calls[c].pc = "returned"
          /\ calls[c].invoked = <<1>>
          /\ calls[c].result = ApologyMsg

-----------------------------------------------------------------------------
\* C29: the attempt budget of the multi-key dispatcher is at least 1 for every
\* GROQ_MAX_ATTEMPTS value (absent, zero, negative, not a number): a call that
\* finds an available key at its first selection performs at least one backend
\* invocation.
KeyAvailableAtSelection ==
    \E i \in KeyIdx : ~keyStatus[i].limited \/ Passed(keyStatus[i].resetTime)
C29_Step ==
    \A c \in Calls :
        (KeysMode /\ Arrives(c) /\ calls'[c].pc # "thrown" /\ KeyAvailableAtSelection) =>
            /\ calls'[c].pc = "await"
            /\ Len(calls'[c].invoked) = 1
C29_BudgetAtLeastOne == [][C29_Step]_vars

-----------------------------------------------------------------------------
\* C30: streamChatWithAI makes exactly one selection and at most one backend
\* invocation per call, with no retry: it throws when no key is available,
\* returns the stream on success, quarantines the selected key for the short
\* cooldown only when the failure has status 429, and rethrows every failure;
\* a failure with another status leaves all health state unchanged.
C30_ArrivalStep ==
    \A c \in Calls :
        Arrives(c) =>
            /\ keyStatus' = ResetAllKeys(keyStatus, now)
            /\ IF KeyAvailableAtSelection
               THEN /\ calls'[c].pc = "await"
                    /\ calls'[c].invoked = << currentIndex' >>
                    /\ ~keyStatus'[currentIndex'].limited
               ELSE /\ calls'[c].pc = "thrown"
                    /\ calls'[c].invoked = <<>>
                    /\ currentIndex' = currentIndex
C30_ResumeStep ==
    \A c \in Calls :
        Resumed(c) =>
            /\ calls'[c].pc \in { "returned", "thrown" }
            /\ calls'[c].invoked = calls[c].invoked
            /\ currentIndex' = currentIndex
            /\ \A o \in Outcomes :
                  StreamResume(c, o) =>
                      /\ o.ok => /\ calls'[c].pc = "returned"
                                 /\ calls'[c].result = StreamOf(o.text)
                      /\ ~o.ok => calls'[c].pc = "thrown"
                      /\ keyStatus' =
                            IF ~o.ok /\ ~o.error.nullish /\ o.error.status = 429
                            THEN [keyStatus EXCEPT ![calls[c].keyIndex] =
                                     [limited |-> TRUE, resetTime |-> now + ShortMs]]
                            ELSE keyStatus
C30_StreamOnce == [][C30_ArrivalStep /\ C30_ResumeStep]_vars
\* a streaming call on key 1 failed with status 429: it has thrown, key 1 is
\* quarantined, key 2 is available and was not tried
C30_Witness ==
    /\ Len(keyStatus) = 2
    /\ KeyQuarantined(1)
    /\ ~keyStatus[2].limited
    /\ currentIndex = 1
    /\ \E c \in Calls : calls[c].pc = "thrown" /\ calls[c].invoked = <<1>>

====
